---- MODULE Spec2Model ----
(***************************************************************************)
(* Storage core of the DSS: the cockroach Store over the four tables       *)
(* subscriptions, cells_subscriptions, identification_service_areas and    *)
(* cells_identification_service_areas.                                     *)
(*                                                                         *)
(* Two revisions of the store live in the sources:                         *)
(*   - the models-based store (unnamed/part_001: fetch/push/Insert/Update/ *)
(*     Delete/Search of subscriptions), specification Spec;                *)
(*   - the protobuf-row store (unnamed/part_000, second file: insert-,     *)
(*     updateSubscription, DeleteSubscription(id, version),                *)
(*     insertIdentificationServiceAreaUnchecked and                        *)
(*     DeleteIdentificationServiceArea), specification SpecLegacy.         *)
(* Both act on the same tables, so they share the variables.               *)
(*                                                                         *)
(* InsertISA, UpdateISA and DeleteISA of the models-based store are not in *)
(* the sources at hand (only their tests and the model type are); they are *)
(* written after the design document, section 4.C, over the                *)
(* affected-subscriptions query of part_001.                               *)
(*                                                                         *)
(* Every public operation is one database transaction; the backend is      *)
(* serializable, so a committed operation is one atomic step.  The         *)
(* step-by-step interleaving of two transactions is the subject of         *)
(* SpecConc below, and the statements of one Insert- or UpdateSubscription,*)
(* each of which can fail, are the subject of SpecSteps.  The first file   *)
(* of unnamed/part_000 holds the store between the two revisions, whose    *)
(* operations assemble a wire-format response before they commit:          *)
(* specification SpecInterim.  The searches run over stored subscriptions  *)
(* and ISAs in SpecSearch; the version strings are computed for every      *)
(* timestamp of the width in SpecVersion, and the two merges of an         *)
(* overlay into an entity for every receiver and overlay in SpecApply.     *)
(* SpecCovering gives loops of every size to the area test of the geo      *)
(* package, SpecArea area strings of every shape to AreaToCellIDs.         *)
(* SpecServer is the RPC handlers of pkg/dss/server.go over the models     *)
(* store.  SpecNotify runs UpdateSubscription statement by statement      *)
(* among ISA mutations, and SpecDelete follows a caller that deletes a     *)
(* subscription and then reads, deletes and inserts its id again.          *)
(***************************************************************************)
EXTENDS Integers, Sequences, FiniteSets, TLC

\* ------------------------------------------------------------------ bounds
\* number of distinct S2 cells
MaxCell == 2
\* number of timestamps the database clock hands out after T0
MaxTicks == 3
\* the clock value before the first transaction (chosen so that the base-32
\* version strings cross from one digit to two)
T0 == 30
\* the width of the nanosecond count of a time (64 bits in the code)
TimeBits == 8
\* the largest loop Covering is given, in tens of square miles
MaxLoopTens == 110
\* the largest number of comma-separated fields of an area string
MaxFields == 6

\* ------------------------------------------------------------ value spaces
Cells == 1..MaxCell
Owners == {"A", "B"}
SubIDs == {"s1", "s2"}
IsaIDs == {"i1"}
\* a NULL timestamp column / a nil *time.Time
NULL == 0
Times == (T0 + 1)..(T0 + MaxTicks)
\* a nil s2.CellUnion is <<>>, a cell union with set S is <<S>>
NilCells == <<>>
\* the cell unions callers put in subscription payloads
SubCellChoices == {NilCells, <<{1}>>, <<Cells>>}
\* the (start, end) pairs callers put in update payloads (NULL: not set)
PatchWindows == {<<NULL, NULL>>, <<T0 + 2, NULL>>, <<NULL, T0 + 2>>}
\* the cell unions callers put in ISA payloads
IsaCellChoices == {<<{1}>>, <<{MaxCell}>>}
\* the (start, end) pairs callers put in ISA payloads
IsaWindows == {<<T0 + 1, T0 + MaxTicks + 1>>}
\* the (start, end) pairs callers put in the ISAs they insert: an empty range
\* as well
IsaInsertWindows == IsaWindows \cup {<<T0 + 2, T0 + 2>>}
\* the (start, end) pairs callers put in their payloads
TimeWindows == {<<NULL, NULL>>, <<T0 + 1, NULL>>, <<NULL, T0 + 2>>, <<T0 + 2, T0 + 2>>}
CellSet(cu) == IF cu = NilCells THEN {} ELSE cu[1]

\* ------------------------------------------------------------------ version
versionBase == 32

\* strconv.FormatUint(n, base): the digits of n, most significant first
\* (a digit d stands for the character "0123456789abcdefghijklmnopqrstuv"[d])
RECURSIVE FormatUint(_, _)
FormatUint(n, base) ==
    IF n < base THEN <<n>> ELSE Append(FormatUint(n \div base, base), n % base)

\* strconv.FormatInt(n, base): a sign in front of the digits of a negative
\* number (the sign is the entry -1, which is no digit)
FormatInt(n, base) ==
    IF n < 0 THEN <<-1>> \o FormatUint(-n, base) ELSE FormatUint(n, base)

\* strconv.ParseUint(s, base, 64): the number, or -1 for a syntax error
\* (the empty string and a character that is no digit of the base)
RECURSIVE ParseUint(_, _)
ParseUint(s, base) ==
    IF Len(s) = 0 THEN -1
    ELSE IF s[Len(s)] \notin 0..(base - 1) THEN -1
    ELSE IF Len(s) = 1 THEN s[1]
    ELSE LET front == ParseUint(SubSeq(s, 1, Len(s) - 1), base)
         IN IF front = -1 THEN -1 ELSE front * base + s[Len(s)]

\* the conversion uint64(n) of a signed count
Uint64(n) == n % (2 ^ TimeBits)

\* the conversion int64(n) of an unsigned count
Int64(n) == IF n >= 2 ^ (TimeBits - 1) THEN n - 2 ^ TimeBits ELSE n

\* a version string that drops the low bits of the count: the variant that
\* VersionRoundTrip tells from the code
timestampToVersionStringCoarse(t) == FormatUint(Uint64(t) \div 2, versionBase)

timestampToVersionString(t) == FormatUint(Uint64(t), versionBase)

\* versionStringToTimestamp, the time it returns (-1 with the error of
\* ParseUint)
versionStringToTimestamp(s) ==
    LET nanos == ParseUint(s, versionBase)
    IN IF nanos = -1 THEN -1 ELSE Int64(nanos)

\* models.VersionFromTimestamp: empty for a nil timestamp
VersionFromTimestamp(t) == IF t = NULL THEN <<>> ELSE timestampToVersionString(t)

\* ------------------------------------------------------------------- state
VARIABLES
    subscriptions,      \* table subscriptions: id -> row
    cells_subscriptions,\* table cells_subscriptions: set of <<cell_id, subscription_id>>
    isas,               \* table identification_service_areas: id -> row
    cells_isas,         \* table cells_identification_service_areas: set of <<cell_id, isa_id>>
    clock,              \* the last transaction_timestamp() handed out
    declared,           \* history: id -> cell set of the last committed insert/update
    res,                \* the last operation: its arguments and what it returned
    tx                  \* the calls that run statement by statement: caller -> its position

vars == <<subscriptions, cells_subscriptions, isas, cells_isas, clock, declared, res, tx>>

tables == <<subscriptions, cells_subscriptions, isas, cells_isas>>

\* a row of subscriptions as a models.Subscription (Cells are not read back)
SubFromRow(id, row) ==
    [ID |-> id, Owner |-> row.owner, Url |-> row.url,
     NotificationIndex |-> row.notification_index,
     StartTime |-> row.starts_at, EndTime |-> row.ends_at,
     UpdatedAt |-> row.updated_at, Cells |-> NilCells]

NoResult ==
    [op |-> "none", id |-> "", owner |-> "", version |-> <<>>, err |-> "",
     sub |-> <<>>, isa |-> <<>>, subscribers |-> {}, cells |-> {}, list |-> {},
     window |-> <<>>, open |-> FALSE, time |-> NULL, arg |-> <<>>, recv |-> <<>>,
     rows |-> <<>>]

\* the callers that run UpdateSubscription concurrently
TxIDs == {"t1", "t2"}

\* a caller that has not called.  op is the operation it calls, s its payload,
\* old the row its transaction fetched, open whether its transaction is
\* neither committed nor rolled back, and rowW, up, swept what the
\* transaction has written: the row, the cell rows upserted, the sweep.
IdleTx ==
    [pc |-> "idle", op |-> "", s |-> <<>>, old |-> <<>>, err |-> "", valid |-> FALSE,
     open |-> FALSE, rowW |-> FALSE, up |-> {}, swept |-> FALSE]

\* a table without rows
EmptyTable == [k \in {} |-> k]

\* the table with the row of id replaced or added
Upsert(table, id, row) == [k \in DOMAIN table \cup {id} |-> IF k = id THEN row ELSE table[k]]

\* the table without the row of id
DeleteRow(table, id) == [k \in DOMAIN table \ {id} |-> table[k]]

Init ==
    /\ subscriptions = EmptyTable
    /\ cells_subscriptions = {}
    /\ isas = EmptyTable
    /\ cells_isas = {}
    /\ clock = T0
    /\ declared = EmptyTable
    /\ res = NoResult
    /\ tx = [t \in TxIDs |-> IdleTx]

\* ------------------------------------------------------------------ schema
\* a table without the CHECK: the variant that RangesStayOrdered tells from
\* the schema
SubscriptionCheckOff(row) == TRUE

\* Bootstrap: CHECK (begins_at IS NULL OR expires_at IS NULL OR begins_at < expires_at)
SubscriptionCheck(row) ==
    row.starts_at = NULL \/ row.ends_at = NULL \/ row.starts_at < row.ends_at

\* Bootstrap: CHECK (starts_at IS NULL OR ends_at IS NULL OR starts_at < ends_at)
IsaCheck(row) ==
    row.starts_at = NULL \/ row.ends_at = NULL \/ row.starts_at < row.ends_at

\* a cell table without ON DELETE CASCADE: the variant that
\* CellRowsReferenceEntities tells from the schema
NoCascade(cellRows, id) == cellRows

\* ON DELETE CASCADE of a cell table: the rows of the deleted entity go
Cascade(cellRows, id) == {p \in cellRows : p[2] # id}

\* the cell ids of the index rows of an entity
RowsOf(cellRows, id) == {p[1] : p \in {q \in cellRows : q[2] = id}}

\* ============================================================ models store
\* (unnamed/part_001)

\* fetchSubscription over "WHERE id = $1": <<>> is sql.ErrNoRows
fetchSubscriptionByID(id) ==
    IF id \in DOMAIN subscriptions
    THEN <<SubFromRow(id, subscriptions[id])>>
    ELSE <<>>

\* the fetch without "AND owner = $2": the variant that ForeignLooksAbsent
\* tells from the code
fetchSubscriptionByIDAnyOwner(subs, id, owner) ==
    IF id \in DOMAIN subs THEN <<SubFromRow(id, subs[id])>> ELSE <<>>

\* fetchSubscription over "WHERE id = $1 AND owner = $2", on table subs
fetchSubscriptionByIDAndOwner(subs, id, owner) ==
    IF id \in DOMAIN subs /\ subs[id].owner = owner
    THEN <<SubFromRow(id, subs[id])>>
    ELSE <<>>

\* models.Subscription.Version
SubVersion(s) == VersionFromTimestamp(s.UpdatedAt)

\* models.Subscription.Apply: the fields set in s2 over s, except ID and Owner
SubscriptionApply(s, s2) ==
    [s EXCEPT !.Url = IF s2.Url # "" THEN s2.Url ELSE @,
              !.NotificationIndex = IF s2.NotificationIndex # 0
                                    THEN s2.NotificationIndex ELSE @,
              !.Cells = IF s2.Cells # NilCells THEN s2.Cells ELSE @,
              !.StartTime = IF s2.StartTime # NULL THEN s2.StartTime ELSE @,
              !.EndTime = IF s2.EndTime # NULL THEN s2.EndTime ELSE @,
              !.UpdatedAt = IF s2.UpdatedAt # NULL THEN s2.UpdatedAt ELSE @]

\* pushSubscription, upsertQuery: the row written, updated_at = transaction_timestamp()
upsertRow(s, ts) ==
    [owner |-> s.Owner, url |-> s.Url, notification_index |-> s.NotificationIndex,
     starts_at |-> s.StartTime, ends_at |-> s.EndTime, updated_at |-> ts]

\* pushSubscription, subscriptionCellQuery in the loop over cids
upsertCells(cellRows, cids, id) == cellRows \cup {<<c, id>> : c \in cids}

\* pushSubscription, deleteLeftOverCellsForSubscriptionQuery
deleteLeftOverCells(cellRows, cids, id) ==
    {p \in cellRows : ~(p[2] = id /\ p[1] \notin cids)}

\* pushSubscription: the cell rows after the upserts and the sweep
pushCells(cellRows, s) ==
    deleteLeftOverCells(upsertCells(cellRows, CellSet(s.Cells), s.ID), CellSet(s.Cells), s.ID)

\* pushSubscription: the subscription it returns (the row read back, Cells reattached)
pushed(s, ts) == [SubFromRow(s.ID, upsertRow(s, ts)) EXCEPT !.Cells = s.Cells]

\* an operation that returns an error: nothing is committed
Failed(op, id, owner, version, err) ==
    /\ res' = [NoResult EXCEPT !.op = op, !.id = id, !.owner = owner,
                               !.version = version, !.err = err]
    /\ UNCHANGED <<tables, clock, declared>>

\* Insert/UpdateSubscription returning an error for payload s: the result
\* keeps the time range the caller sent
FailedPush(op, s, err) ==
    /\ res' = [NoResult EXCEPT !.op = op, !.id = s.ID, !.owner = s.Owner,
                               !.version = SubVersion(s), !.err = err,
                               !.window = <<s.StartTime, s.EndTime>>]
    /\ UNCHANGED <<tables, clock, declared>>

\* the commit of a transaction that pushed subscription s
CommitPush(op, s, version) ==
    /\ clock < T0 + MaxTicks
    /\ clock' = clock + 1
    /\ subscriptions' = Upsert(subscriptions, s.ID, upsertRow(s, clock'))
    /\ cells_subscriptions' = pushCells(cells_subscriptions, s)
    /\ declared' = Upsert(declared, s.ID, CellSet(s.Cells))
    /\ res' = [NoResult EXCEPT !.op = op, !.id = s.ID, !.owner = s.Owner,
                               !.version = version, !.sub = <<pushed(s, clock')>>]
    /\ UNCHANGED <<isas, cells_isas>>

\* InsertSubscription without the fetch by id: the variant that
\* DuplicateInsertRefused tells from the code
InsertSubscriptionOpUnchecked(s) ==
    IF ~SubscriptionCheck(upsertRow(s, clock + 1))
    THEN FailedPush("InsertSubscription", s, "Constraint")
    ELSE CommitPush("InsertSubscription", s, SubVersion(s))

\* Store.InsertSubscription
InsertSubscriptionOp(s) ==
    IF fetchSubscriptionByID(s.ID) # <<>>
    THEN FailedPush("InsertSubscription", s, "AlreadyExists")
    ELSE IF ~SubscriptionCheck(upsertRow(s, clock + 1))
    THEN FailedPush("InsertSubscription", s, "Constraint")
    ELSE CommitPush("InsertSubscription", s, SubVersion(s))

\* UpdateSubscription without the comparison of versions: the variant that
\* UpdateVersionGate tells from the code
UpdateSubscriptionErrAnyVersion(subs, s) ==
    LET old == fetchSubscriptionByIDAndOwner(subs, s.ID, s.Owner) IN
    IF old = <<>> THEN "NotFound"
    ELSE IF ~SubscriptionCheck(upsertRow(SubscriptionApply(old[1], s), clock + 1))
    THEN "Constraint"
    ELSE ""

\* Store.UpdateSubscription: the error it returns on table subs ("" for none)
UpdateSubscriptionErr(subs, s) ==
    LET old == fetchSubscriptionByIDAndOwner(subs, s.ID, s.Owner) IN
    IF old = <<>> THEN "NotFound"
    ELSE IF SubVersion(s) # SubVersion(old[1]) THEN "VersionMismatch"
    ELSE IF ~SubscriptionCheck(upsertRow(SubscriptionApply(old[1], s), clock + 1))
    THEN "Constraint"
    ELSE ""

\* Store.UpdateSubscription
UpdateSubscriptionOp(s) ==
    LET old == fetchSubscriptionByIDAndOwner(subscriptions, s.ID, s.Owner) IN
    IF UpdateSubscriptionErr(subscriptions, s) # ""
    THEN FailedPush("UpdateSubscription", s, UpdateSubscriptionErr(subscriptions, s))
    ELSE CommitPush("UpdateSubscription", SubscriptionApply(old[1], s), SubVersion(s))

\* the error made by fmt.Errorf("version mismatch for subscription %s", id):
\* it is of no kind of the dsserr package
ErrorfVersionMismatch == "fmt.Errorf: version mismatch"

\* Store.DeleteSubscription: the error it returns on table subs ("" for none)
DeleteSubscriptionErr(subs, id, owner, version) ==
    LET old == fetchSubscriptionByIDAndOwner(subs, id, owner) IN
    IF old = <<>> THEN "ErrNoRows"
    ELSE IF version # SubVersion(old[1]) THEN ErrorfVersionMismatch
    ELSE ""

\* DeleteSubscription that returns the row and leaves it in the table: the
\* variant that DeletionIdempotent tells from the code
DeleteSubscriptionOpKeepRow(id, owner, version) ==
    LET old == fetchSubscriptionByIDAndOwner(subscriptions, id, owner) IN
    IF DeleteSubscriptionErr(subscriptions, id, owner, version) # ""
    THEN Failed("DeleteSubscription", id, owner, version,
                DeleteSubscriptionErr(subscriptions, id, owner, version))
    ELSE /\ res' = [NoResult EXCEPT !.op = "DeleteSubscription", !.id = id,
                                    !.owner = owner, !.version = version, !.sub = old,
                                    !.cells = RowsOf(cells_subscriptions, id)]
         /\ UNCHANGED <<tables, clock, declared>>

\* Store.DeleteSubscription
DeleteSubscriptionOp(id, owner, version) ==
    LET old == fetchSubscriptionByIDAndOwner(subscriptions, id, owner) IN
    IF DeleteSubscriptionErr(subscriptions, id, owner, version) # ""
    THEN Failed("DeleteSubscription", id, owner, version,
                DeleteSubscriptionErr(subscriptions, id, owner, version))
    ELSE /\ subscriptions' = DeleteRow(subscriptions, id)
         /\ cells_subscriptions' = Cascade(cells_subscriptions, id)
         /\ declared' = DeleteRow(declared, id)
         /\ res' = [NoResult EXCEPT !.op = "DeleteSubscription", !.id = id,
                                    !.owner = owner, !.version = version, !.sub = old,
                                    !.cells = RowsOf(cells_subscriptions, id)]
         /\ UNCHANGED <<isas, cells_isas, clock>>

\* Store.GetSubscription
GetSubscriptionOp(id) ==
    /\ res' = [NoResult EXCEPT !.op = "GetSubscription", !.id = id,
                               !.err = IF fetchSubscriptionByID(id) = <<>> THEN "ErrNoRows" ELSE "",
                               !.sub = fetchSubscriptionByID(id)]
    /\ UNCHANGED <<tables, clock, declared>>

\* fetchSubscriptionsByCellsWithoutOwner: the ids of the rows the query returns.
\* The subquery (the subscriptions with an index row in cells) is LEFT JOINed,
\* so every row of subscriptions is kept, matched or not; WHERE keeps the
\* rows of the other owners.
fetchSubscriptionsByCellsWithoutOwner(cells, owner) ==
    LET unique_subscription_ids == {p[2] : p \in {q \in cells_subscriptions : q[1] \in cells}}
        joined == {<<id, m>> : id \in DOMAIN subscriptions,
                               m \in {TRUE, FALSE}} 
    IN {j[1] : j \in {k \in joined :
                        /\ k[2] = (k[1] \in unique_subscription_ids)
                        /\ subscriptions[k[1]].owner # owner}}

\* ------------------------------------------------ ISA operations (models store)
\* a row of identification_service_areas as a models.IdentificationServiceArea
IsaFromRow(id, row) ==
    [ID |-> id, Owner |-> row.owner, Url |-> row.url,
     StartTime |-> row.starts_at, EndTime |-> row.ends_at,
     UpdatedAt |-> row.updated_at, Cells |-> NilCells]

\* a Version that does not read UpdatedAt: the variant that IsaVersionChain
\* tells from the code
IsaVersionFixed(i) == <<>>

\* IdentificationServiceArea.Version
IsaVersion(i) == VersionFromTimestamp(i.UpdatedAt)

\* IdentificationServiceArea.Apply: the fields set in i2 over s, except ID and Owner
IsaApply(s, i2) ==
    [s EXCEPT !.Url = IF i2.Url # "" THEN i2.Url ELSE @,
              !.Cells = IF i2.Cells # NilCells THEN i2.Cells ELSE @,
              !.StartTime = IF i2.StartTime # NULL THEN i2.StartTime ELSE @,
              !.EndTime = IF i2.EndTime # NULL THEN i2.EndTime ELSE @,
              !.UpdatedAt = IF i2.UpdatedAt # NULL THEN i2.UpdatedAt ELSE @]

fetchISAByID(id) ==
    IF id \in DOMAIN isas THEN <<IsaFromRow(id, isas[id])>> ELSE <<>>

fetchISAByIDAndOwner(id, owner) ==
    IF id \in DOMAIN isas /\ isas[id].owner = owner
    THEN <<IsaFromRow(id, isas[id])>>
    ELSE <<>>

\* the row pushISA writes
upsertIsaRow(i, ts) ==
    [owner |-> i.Owner, url |-> i.Url, starts_at |-> i.StartTime,
     ends_at |-> i.EndTime, updated_at |-> ts]

\* the affected cells without those the ISA had before: the variant that
\* RemovedCellsStillNotified tells from the operation
affectedCellsAfterOnly(id, cellsAfter) == cellsAfter

\* the cells an ISA mutation affects: those before and those after it
affectedCells(id, cellsAfter) == RowsOf(cells_isas, id) \cup cellsAfter

\* the counter increment of the affected subscriptions, at timestamp ts
notifyRow(row, ts) ==
    [row EXCEPT !.notification_index = @ + 1, !.updated_at = ts]

incrementNotificationIndex(ids, ts) ==
    [k \in DOMAIN subscriptions |->
        IF k \in ids THEN notifyRow(subscriptions[k], ts) ELSE subscriptions[k]]

\* the subscriber tuples returned for ids, read from table subs
subscriberTuples(subs, ids) ==
    {[id |-> k, url |-> subs[k].url,
      notification_index |-> subs[k].notification_index] : k \in ids}

\* the commit of a transaction that pushed ISA i
CommitPushISA(op, i, version) ==
    LET affected == fetchSubscriptionsByCellsWithoutOwner(
                        affectedCells(i.ID, CellSet(i.Cells)), i.Owner)
    IN /\ clock < T0 + MaxTicks
       /\ clock' = clock + 1
       /\ isas' = Upsert(isas, i.ID, upsertIsaRow(i, clock'))
       /\ cells_isas' = pushCells(cells_isas, i)
       /\ subscriptions' = incrementNotificationIndex(affected, clock')
       /\ res' = [NoResult EXCEPT !.op = op, !.id = i.ID, !.owner = i.Owner,
                                  !.version = version,
                                  !.isa = <<[IsaFromRow(i.ID, upsertIsaRow(i, clock'))
                                              EXCEPT !.Cells = i.Cells]>>,
                                  !.cells = affectedCells(i.ID, CellSet(i.Cells)),
                                  !.subscribers = subscriberTuples(subscriptions', affected)]
       /\ UNCHANGED <<cells_subscriptions, declared>>

\* Store.InsertISA
InsertISAOp(i) ==
    IF fetchISAByID(i.ID) # <<>>
    THEN Failed("InsertISA", i.ID, i.Owner, IsaVersion(i), "AlreadyExists")
    ELSE IF ~IsaCheck(upsertIsaRow(i, clock + 1))
    THEN Failed("InsertISA", i.ID, i.Owner, IsaVersion(i), "Constraint")
    ELSE CommitPushISA("InsertISA", i, IsaVersion(i))

\* Store.UpdateISA
UpdateISAOp(i) ==
    LET old == fetchISAByIDAndOwner(i.ID, i.Owner) IN
    IF old = <<>>
    THEN Failed("UpdateISA", i.ID, i.Owner, IsaVersion(i), "NotFound")
    ELSE IF IsaVersion(i) # IsaVersion(old[1])
    THEN Failed("UpdateISA", i.ID, i.Owner, IsaVersion(i), "VersionMismatch")
    ELSE IF ~IsaCheck(upsertIsaRow(IsaApply(old[1], i), clock + 1))
    THEN Failed("UpdateISA", i.ID, i.Owner, IsaVersion(i), "Constraint")
    ELSE CommitPushISA("UpdateISA", IsaApply(old[1], i), IsaVersion(i))

\* Store.DeleteISA
DeleteISAOp(id, owner, version) ==
    LET old == fetchISAByIDAndOwner(id, owner)
        affected == fetchSubscriptionsByCellsWithoutOwner(RowsOf(cells_isas, id), owner)
    IN
    IF old = <<>>
    THEN Failed("DeleteISA", id, owner, version, "NotFound")
    ELSE IF version # <<>> /\ version # IsaVersion(old[1])
    THEN Failed("DeleteISA", id, owner, version, "VersionMismatch")
    ELSE /\ clock < T0 + MaxTicks
         /\ clock' = clock + 1
         /\ isas' = DeleteRow(isas, id)
         /\ cells_isas' = Cascade(cells_isas, id)
         /\ subscriptions' = incrementNotificationIndex(affected, clock')
         /\ res' = [NoResult EXCEPT !.op = "DeleteISA", !.id = id, !.owner = owner,
                                    !.version = version, !.isa = old,
                                    !.cells = RowsOf(cells_isas, id),
                                    !.subscribers = subscriberTuples(subscriptions', affected)]
         /\ UNCHANGED <<cells_subscriptions, declared>>

\* ------------------------------------------------------------- the callers
\* No operation reads res: it is what the caller got back.  The steps from a
\* state whose last operation wrote nothing (an error, a read) lead exactly
\* where the steps from the state before it lead, so they are not taken
\* again; every reachable table state and every result is still reached.
Settled ==
    res.err = "" /\ res.op \notin {"GetSubscription", "SearchSubscriptions", "SearchISAs"}

\* the timestamps behind the version tokens a caller can hold: none, or one
\* the store has handed out
HeldTimestamps == {NULL} \cup {t \in Times : t <= clock}

\* a models.Subscription payload
SubPayload(id, owner, url, w, updatedAt, cu) ==
    [ID |-> id, Owner |-> owner, Url |-> url, NotificationIndex |-> 0,
     StartTime |-> w[1], EndTime |-> w[2], UpdatedAt |-> updatedAt, Cells |-> cu]

\* the notification_index a caller puts in an update payload (0: not set)
PayloadIndexes == {0, MaxTicks}

\* a models.IdentificationServiceArea payload
IsaPayload(id, owner, url, w, updatedAt, cu) ==
    [ID |-> id, Owner |-> owner, Url |-> url,
     StartTime |-> w[1], EndTime |-> w[2], UpdatedAt |-> updatedAt, Cells |-> cu]

InsertSubscription ==
    /\ Settled
    /\ UNCHANGED tx
    /\ \E id \in SubIDs, owner \in Owners, w \in TimeWindows, cu \in SubCellChoices :
        InsertSubscriptionOp(SubPayload(id, owner, "u1", w, NULL, cu))

UpdateSubscription ==
    /\ Settled
    /\ UNCHANGED tx
    /\ \E id \in SubIDs, owner \in Owners, w \in PatchWindows, cu \in SubCellChoices,
          u \in HeldTimestamps, n \in PayloadIndexes :
        /\ n # 0 => (w = <<NULL, NULL>> /\ cu = <<Cells>>)
        /\ UpdateSubscriptionOp([SubPayload(id, owner, "", w, u, cu)
                                    EXCEPT !.NotificationIndex = n])

DeleteSubscription ==
    /\ Settled
    /\ UNCHANGED tx
    /\ \E id \in SubIDs, owner \in Owners, u \in HeldTimestamps :
        DeleteSubscriptionOp(id, owner, VersionFromTimestamp(u))

GetSubscription ==
    /\ Settled
    /\ UNCHANGED tx
    /\ \E id \in SubIDs : GetSubscriptionOp(id)

InsertISA ==
    /\ Settled
    /\ UNCHANGED tx
    /\ \E id \in IsaIDs, owner \in Owners, w \in IsaInsertWindows, cu \in IsaCellChoices :
        InsertISAOp(IsaPayload(id, owner, "f1", w, NULL, cu))

UpdateISA ==
    /\ Settled
    /\ UNCHANGED tx
    /\ \E id \in IsaIDs, owner \in Owners, cu \in IsaCellChoices \cup {NilCells},
          u \in HeldTimestamps :
        UpdateISAOp(IsaPayload(id, owner, "", <<NULL, NULL>>, u, cu))

DeleteISA ==
    /\ Settled
    /\ UNCHANGED tx
    /\ \E id \in IsaIDs, owner \in Owners, u \in HeldTimestamps :
        DeleteISAOp(id, owner, VersionFromTimestamp(u))

Next ==
    \/ InsertSubscription
    \/ UpdateSubscription
    \/ DeleteSubscription
    \/ GetSubscription
    \/ InsertISA
    \/ UpdateISA
    \/ DeleteISA

Spec == Init /\ [][Next]_vars

\* ========================================================= protobuf-row store
\* (unnamed/part_000, the file from line 498 on)

\* a dspb.Subscription request: Owner and Url may be empty, Begins and Expires nil
PbSubscription(id, owner, url, w, version) ==
    [Id |-> id, Owner |-> owner, Url |-> url, Begins |-> w[1], Expires |-> w[2],
     Version |-> version]

\* subscriptionsRow.versionOK
versionOK(row, version) ==
    version = <<>> \/ version = timestampToVersionString(row.updated_at)

\* subscriptionsRow.applyProtobuf, on the fields of the row (the id is the key)
applyProtobuf(row, pb) ==
    [row EXCEPT !.owner = IF pb.Owner # "" THEN pb.Owner ELSE @,
                !.url = IF pb.Url # "" THEN pb.Url ELSE @,
                !.starts_at = IF pb.Begins # NULL THEN pb.Begins ELSE @,
                !.ends_at = IF pb.Expires # NULL THEN pb.Expires ELSE @]

\* the zero subscriptionsRow
zeroRow ==
    [owner |-> "", url |-> "", notification_index |-> 0,
     starts_at |-> NULL, ends_at |-> NULL, updated_at |-> NULL]

\* the commit of insertSubscription / updateSubscription: the row, then the
\* cell upserts; nothing deletes the cells the subscription no longer has
CommitRow(op, id, row, cells, version) ==
    /\ clock < T0 + MaxTicks
    /\ clock' = clock + 1
    /\ subscriptions' = Upsert(subscriptions, id, [row EXCEPT !.updated_at = clock'])
    /\ cells_subscriptions' = upsertCells(cells_subscriptions, cells, id)
    /\ declared' = Upsert(declared, id, cells)
    /\ res' = [NoResult EXCEPT !.op = op, !.id = id, !.owner = row.owner,
                               !.version = version,
                               !.sub = <<SubFromRow(id, subscriptions'[id])>>]
    /\ UNCHANGED <<isas, cells_isas>>

\* Store.insertSubscription
insertSubscriptionOp(pb, cells) ==
    LET sr == applyProtobuf(zeroRow, pb) IN
    IF pb.Id \in DOMAIN subscriptions
    THEN Failed("insertSubscription", pb.Id, pb.Owner, pb.Version, "DuplicateKey")
    ELSE IF ~SubscriptionCheck(sr)
    THEN Failed("insertSubscription", pb.Id, pb.Owner, pb.Version, "Constraint")
    ELSE CommitRow("insertSubscription", pb.Id, sr, cells, pb.Version)

\* Store.updateSubscription
updateSubscriptionOp(pb, cells) ==
    IF pb.Id \notin DOMAIN subscriptions
    THEN Failed("updateSubscription", pb.Id, pb.Owner, pb.Version, "ErrNoRows")
    ELSE IF ~versionOK(subscriptions[pb.Id], pb.Version)
    THEN Failed("updateSubscription", pb.Id, pb.Owner, pb.Version, ErrorfVersionMismatch)
    ELSE IF ~SubscriptionCheck(applyProtobuf(subscriptions[pb.Id], pb))
    THEN Failed("updateSubscription", pb.Id, pb.Owner, pb.Version, "Constraint")
    ELSE CommitRow("updateSubscription", pb.Id,
                   applyProtobuf(subscriptions[pb.Id], pb), cells, pb.Version)

\* Store.DeleteSubscription(id, version): blindQuery for the empty version,
\* idempotentQuery (id and updated_at) otherwise; no row is sql.ErrNoRows
rowToDelete(id, version) ==
    IF id \notin DOMAIN subscriptions THEN FALSE
    ELSE IF version = <<>> THEN TRUE
    ELSE subscriptions[id].updated_at = versionStringToTimestamp(version)

DeleteSubscriptionV0Op(id, owner, version) ==
    IF ~rowToDelete(id, version)
    THEN Failed("DeleteSubscriptionV0", id, owner, version, "ErrNoRows")
    ELSE /\ subscriptions' = DeleteRow(subscriptions, id)
         /\ cells_subscriptions' = Cascade(cells_subscriptions, id)
         /\ declared' = DeleteRow(declared, id)
         /\ res' = [NoResult EXCEPT !.op = "DeleteSubscriptionV0", !.id = id,
                                    !.owner = owner, !.version = version,
                                    !.sub = <<SubFromRow(id, subscriptions[id])>>]
         /\ UNCHANGED <<isas, cells_isas, clock>>

\* Store.insertIdentificationServiceAreaUnchecked
insertIdentificationServiceAreaUncheckedOp(i) ==
    IF i.ID \in DOMAIN isas
    THEN Failed("insertIdentificationServiceAreaUnchecked", i.ID, i.Owner, <<>>, "DuplicateKey")
    ELSE IF ~IsaCheck(upsertIsaRow(i, clock + 1))
    THEN Failed("insertIdentificationServiceAreaUnchecked", i.ID, i.Owner, <<>>, "Constraint")
    ELSE /\ clock < T0 + MaxTicks
         /\ clock' = clock + 1
         /\ isas' = Upsert(isas, i.ID, upsertIsaRow(i, clock'))
         /\ cells_isas' = upsertCells(cells_isas, CellSet(i.Cells), i.ID)
         /\ res' = [NoResult EXCEPT !.op = "insertIdentificationServiceAreaUnchecked",
                                    !.id = i.ID, !.owner = i.Owner,
                                    !.isa = <<IsaFromRow(i.ID, isas'[i.ID])>>]
         /\ UNCHANGED <<subscriptions, cells_subscriptions, declared>>

\* getAffectedCellsAndSubscriptions: the rows <<cell_id, subscription_id>> of
\* the ISA's cells LEFT JOINed with the subscriptions' cells; a cell without
\* a subscription gives a row whose subscription_id is NULL ("" here)
getAffectedCellsAndSubscriptions(id) ==
    UNION {IF \E p \in cells_subscriptions : p[1] = c
           THEN {<<c, p[2]>> : p \in {q \in cells_subscriptions : q[1] = c}}
           ELSE {<<c, "">>} : c \in RowsOf(cells_isas, id)}

\* getSubscriptionDetailsForAffectedCells, its WHERE clause on one row.  AND
\* binds tighter than OR:
\*   (id = ANY($1) AND owner != $2 AND begins_at IS NULL)
\*   OR (transaction_timestamp() >= begins_at AND expires_at IS NULL)
\*   OR transaction_timestamp() <= expires_at
\* and a comparison with NULL is not true.
getSubscriptionDetailsForAffectedCells(id, row, ids, owner, now) ==
    \/ (id \in ids /\ row.owner # owner /\ row.starts_at = NULL)
    \/ (row.starts_at # NULL /\ now >= row.starts_at /\ row.ends_at = NULL)
    \/ (row.ends_at # NULL /\ now <= row.ends_at)

\* Store.DeleteIdentificationServiceArea(id, owner)
DeleteIdentificationServiceAreaOp(id, owner) ==
    LET joined == getAffectedCellsAndSubscriptions(id)
        ids == {j[2] : j \in joined}
        details == {k \in DOMAIN subscriptions :
                      getSubscriptionDetailsForAffectedCells(
                          k, subscriptions[k], ids, owner, clock + 1)}
    IN
    IF \E j \in joined : j[2] = ""
    THEN \* rows.Scan of a NULL subscription_id into a string fails
         Failed("DeleteIdentificationServiceArea", id, owner, <<>>, "ScanNull")
    ELSE IF ~(id \in DOMAIN isas /\ isas[id].owner = owner)
    THEN \* the DELETE returned no row: the transaction is rolled back, the next
         \* query on it fails
         Failed("DeleteIdentificationServiceArea", id, owner, <<>>, "TxDone")
    ELSE /\ clock < T0 + MaxTicks
         /\ clock' = clock + 1
         /\ isas' = DeleteRow(isas, id)
         /\ cells_isas' = Cascade(cells_isas, id)
         /\ res' = [NoResult EXCEPT !.op = "DeleteIdentificationServiceArea",
                                    !.id = id, !.owner = owner,
                                    !.isa = <<IsaFromRow(id, isas[id])>>,
                                    !.cells = RowsOf(cells_isas, id),
                                    !.subscribers = subscriberTuples(subscriptions, details)]
         /\ UNCHANGED <<subscriptions, cells_subscriptions, declared>>

insertSubscription ==
    /\ Settled
    /\ UNCHANGED tx
    /\ \E id \in SubIDs, owner \in Owners, w \in TimeWindows, cu \in SubCellChoices :
        insertSubscriptionOp(PbSubscription(id, owner, "u1", w, <<>>), CellSet(cu))

updateSubscription ==
    /\ Settled
    /\ UNCHANGED tx
    /\ \E id \in SubIDs, owner \in Owners, w \in PatchWindows, cu \in SubCellChoices,
          u \in HeldTimestamps :
        updateSubscriptionOp(PbSubscription(id, owner, "", w, VersionFromTimestamp(u)),
                             CellSet(cu))

DeleteSubscriptionV0 ==
    /\ Settled
    /\ UNCHANGED tx
    /\ \E id \in SubIDs, owner \in Owners, u \in HeldTimestamps :
        DeleteSubscriptionV0Op(id, owner, VersionFromTimestamp(u))

insertIdentificationServiceAreaUnchecked ==
    /\ Settled
    /\ UNCHANGED tx
    /\ \E id \in IsaIDs, owner \in Owners, w \in IsaWindows, cu \in IsaCellChoices :
        insertIdentificationServiceAreaUncheckedOp(IsaPayload(id, owner, "f1", w, NULL, cu))

DeleteIdentificationServiceArea ==
    /\ Settled
    /\ UNCHANGED tx
    /\ \E id \in IsaIDs, owner \in Owners : DeleteIdentificationServiceAreaOp(id, owner)

NextLegacy ==
    \/ insertSubscription
    \/ updateSubscription
    \/ DeleteSubscriptionV0
    \/ GetSubscription
    \/ insertIdentificationServiceAreaUnchecked
    \/ DeleteIdentificationServiceArea

SpecLegacy == Init /\ [][NextLegacy]_vars

\* =================================================== concurrent UpdateSubscription
\* (unnamed/part_001, Store.UpdateSubscription statement by statement)
\* Two callers run Store.UpdateSubscription in transactions of their own.  A
\* transaction reads what is committed; what it writes becomes visible at its
\* commit.  The database is serializable: it refuses, with a serialization
\* failure, the write and the commit of a transaction whose row was
\* overwritten by a commit after the transaction read it.

\* the Url a caller writes, which tells its write from the other's
TxUrl(t) == IF t = "t1" THEN "w1" ELSE "w2"

\* the cell unions the concurrent callers send
ConcCellChoices == {NilCells, <<Cells>>}

\* the version token of payload s is that of the stored row of its id and owner
TokenValid(s) ==
    /\ fetchSubscriptionByIDAndOwner(subscriptions, s.ID, s.Owner) # <<>>
    /\ SubVersion(s) = SubVersion(fetchSubscriptionByIDAndOwner(subscriptions, s.ID, s.Owner)[1])

\* the row transaction t read was overwritten or deleted by a later commit
Conflict(t) ==
    \/ tx[t].old[1].ID \notin DOMAIN subscriptions
    \/ subscriptions[tx[t].old[1].ID].updated_at # tx[t].old[1].UpdatedAt

\* "return nil, multierr.Combine(err, tx.Rollback())", and the return of the
\* error of tx.Commit(), which ends the transaction too: the call returns
\* err, the transaction is over and nothing of it is committed
ReturnErr(t, err) ==
    /\ tx' = [tx EXCEPT ![t].pc = "failed", ![t].err = err, ![t].open = FALSE]
    /\ UNCHANGED <<tables, clock, declared, res>>

\* "return nil, err" after pushSubscription: the call returns err and the
\* transaction is neither committed nor rolled back
ReturnErrNoRollback(t, err) ==
    /\ tx' = [tx EXCEPT ![t].pc = "failed", ![t].err = err]
    /\ UNCHANGED <<tables, clock, declared, res>>

\* a subscription is inserted while the callers run (Store.InsertSubscription)
SeedSubscription ==
    /\ UNCHANGED tx
    /\ \E id \in SubIDs, owner \in Owners :
          InsertSubscriptionOp(SubPayload(id, owner, "u1", <<NULL, NULL>>, NULL, <<{1}>>))

\* UpdateSubscription is called with payload s: c.Begin()
BeginUpdate ==
    \E t \in TxIDs, id \in SubIDs, owner \in Owners, u \in HeldTimestamps,
       cu \in ConcCellChoices :
        LET s == SubPayload(id, owner, TxUrl(t), <<NULL, NULL>>, u, cu) IN
        /\ tx[t].pc = "idle"
        /\ tx' = [tx EXCEPT ![t] = [IdleTx EXCEPT !.pc = "fetch",
                                                   !.op = "UpdateSubscription",
                                                   !.s = <<s>>, !.open = TRUE,
                                                   !.valid = TokenValid(s)]]
        /\ UNCHANGED <<tables, clock, declared, res>>

\* fetchSubscriptionByIDAndOwner and the switch on its result
FetchForUpdate ==
    \E t \in TxIDs :
        LET s == tx[t].s[1]
            old == fetchSubscriptionByIDAndOwner(subscriptions, s.ID, s.Owner)
        IN /\ tx[t].pc = "fetch"
           /\ IF old = <<>> THEN ReturnErr(t, "NotFound")
              ELSE IF SubVersion(s) # SubVersion(old[1]) THEN ReturnErr(t, "VersionMismatch")
              ELSE /\ tx' = [tx EXCEPT ![t].pc = "push", ![t].old = old]
                   /\ UNCHANGED <<tables, clock, declared, res>>

\* pushSubscription(old.Apply(s)): its error is returned as it is
PushUpdate ==
    \E t \in TxIDs :
        /\ tx[t].pc = "push"
        /\ IF Conflict(t) THEN ReturnErrNoRollback(t, "SerializationFailure")
           ELSE IF ~SubscriptionCheck(
                       upsertRow(SubscriptionApply(tx[t].old[1], tx[t].s[1]), clock + 1))
           THEN ReturnErrNoRollback(t, "Constraint")
           ELSE /\ tx' = [tx EXCEPT ![t].pc = "commit"]
                /\ UNCHANGED <<tables, clock, declared, res>>

\* tx.Commit(): its error is returned as it is
CommitUpdate ==
    \E t \in TxIDs :
        /\ tx[t].pc = "commit"
        /\ IF Conflict(t) THEN ReturnErr(t, "SerializationFailure")
           ELSE /\ CommitPush("UpdateSubscription",
                              SubscriptionApply(tx[t].old[1], tx[t].s[1]),
                              SubVersion(tx[t].s[1]))
                /\ tx' = [tx EXCEPT ![t].pc = "committed", ![t].open = FALSE]

NextConc ==
    \/ SeedSubscription
    \/ BeginUpdate
    \/ FetchForUpdate
    \/ PushUpdate
    \/ CommitUpdate

SpecConc == Init /\ [][NextConc]_vars

\* ====================================== UpdateSubscription among ISA mutations
\* (unnamed/part_001, Store.UpdateSubscription; the ISA mutations of the
\* models store)  The callers of UpdateSubscription run as above, statement by
\* statement, while InsertISA, UpdateISA and DeleteISA commit between their
\* statements.  An ISA mutation that affects the subscription a transaction
\* fetched overwrites its row, so it is a Conflict for that transaction.

\* the NotificationIndex a caller sends: 0 is "not set", 1 is a counter it
\* read earlier
SentIndexes == {0, 1}

\* the subscription the callers of this section work on, and its owner
NotifiedID == "s1"
NotifiedOwner == "A"

\* the subscription is inserted with the counter the caller sends
\* (Store.InsertSubscription: pushSubscription writes s.NotificationIndex)
SeedIndexedSubscription ==
    /\ UNCHANGED tx
    /\ \E n \in SentIndexes :
          InsertSubscriptionOp([SubPayload(NotifiedID, NotifiedOwner, "u1",
                                           <<NULL, NULL>>, NULL, <<{1}>>)
                                   EXCEPT !.NotificationIndex = n])

\* UpdateSubscription is called with a payload that carries a counter
BeginIndexedUpdate ==
    \E t \in TxIDs, u \in HeldTimestamps, n \in SentIndexes :
        LET s == [SubPayload(NotifiedID, NotifiedOwner, TxUrl(t), <<NULL, NULL>>, u, NilCells)
                     EXCEPT !.NotificationIndex = n] IN
        /\ tx[t].pc = "idle"
        /\ tx' = [tx EXCEPT ![t] = [IdleTx EXCEPT !.pc = "fetch",
                                                   !.op = "UpdateSubscription",
                                                   !.s = <<s>>, !.open = TRUE,
                                                   !.valid = TokenValid(s)]]
        /\ UNCHANGED <<tables, clock, declared, res>>

\* the ISA mutations of another owner and of the owner, on the cell of the
\* subscription
NotifyInsertISA ==
    /\ UNCHANGED tx
    /\ \E id \in IsaIDs, owner \in Owners, w \in IsaWindows :
          InsertISAOp(IsaPayload(id, owner, "f1", w, NULL, <<{1}>>))

NotifyUpdateISA ==
    /\ UNCHANGED tx
    /\ \E id \in IsaIDs, owner \in Owners, u \in HeldTimestamps :
          UpdateISAOp(IsaPayload(id, owner, "", <<NULL, NULL>>, u, NilCells))

NotifyDeleteISA ==
    /\ UNCHANGED tx
    /\ \E id \in IsaIDs, owner \in Owners, u \in HeldTimestamps :
          DeleteISAOp(id, owner, VersionFromTimestamp(u))

NextNotify ==
    \/ SeedIndexedSubscription
    \/ BeginIndexedUpdate
    \/ FetchForUpdate
    \/ PushUpdate
    \/ CommitUpdate
    \/ NotifyInsertISA
    \/ NotifyUpdateISA
    \/ NotifyDeleteISA

SpecNotify == Init /\ [][NextNotify]_vars

\* =================================================== the statements of a push
\* (unnamed/part_001, Store.InsertSubscription and Store.UpdateSubscription
\* statement by statement)
\* One caller runs InsertSubscription and UpdateSubscription one statement at
\* a time; every statement sent to the database can fail.  A call that has
\* returned is followed by the next call.  DeleteSubscription, a single
\* DELETE in its transaction, runs between the calls.

\* the caller that runs statement by statement
StepCallers == {"t1"}

\* a statement sent to the database fails or not
StatementFails == {TRUE, FALSE}

\* the time ranges of the payloads: none, and one the CHECK refuses
StepWindows == {<<NULL, NULL>>, <<T0 + 2, T0 + 2>>}

\* the queryable handed to pushSubscription, where its statements take effect
\* at once: the variant that WritesVisibleTogether tells from the code
queryableDB(t) == "db"

\* the queryable handed to fetchSubscription and pushSubscription: the
\* transaction, whose statements take effect at its commit
queryable(t) == "tx"

\* the subscription the call of t pushes: the payload, or old.Apply(s)
Pushing(t) ==
    IF tx[t].op = "InsertSubscription" THEN tx[t].s[1]
    ELSE SubscriptionApply(tx[t].old[1], tx[t].s[1])

\* the cell ids pushSubscription has still to upsert
RemainingCells(t) == CellSet(Pushing(t).Cells) \ tx[t].up

\* cids[i] of the loop: the cells are upserted in the order of the union
NextCell(t) == CHOOSE c \in RemainingCells(t) : \A d \in RemainingCells(t) : c <= d

\* what the transaction of t has written, over the committed table rows
WrittenRows(t, ts) ==
    IF tx[t].rowW THEN Upsert(subscriptions, Pushing(t).ID, upsertRow(Pushing(t), ts))
    ELSE subscriptions

\* what the transaction of t has written, over the committed cell rows
WrittenCells(t) ==
    IF tx[t].swept
    THEN deleteLeftOverCells(upsertCells(cells_subscriptions, tx[t].up, Pushing(t).ID),
                             CellSet(Pushing(t).Cells), Pushing(t).ID)
    ELSE upsertCells(cells_subscriptions, tx[t].up, Pushing(t).ID)

\* a statement of t has run: on the transaction nothing is visible yet, on
\* the database handle it is visible at once
Visible(t, txAfter) ==
    IF queryable(t) = "tx"
    THEN UNCHANGED <<tables, clock, declared, res>>
    ELSE /\ subscriptions' =
               IF txAfter.rowW
               THEN Upsert(subscriptions, Pushing(t).ID, upsertRow(Pushing(t), clock))
               ELSE subscriptions
         /\ cells_subscriptions' =
               IF txAfter.swept
               THEN deleteLeftOverCells(
                        upsertCells(cells_subscriptions, txAfter.up, Pushing(t).ID),
                        CellSet(Pushing(t).Cells), Pushing(t).ID)
               ELSE upsertCells(cells_subscriptions, txAfter.up, Pushing(t).ID)
         /\ UNCHANGED <<isas, cells_isas, clock, declared, res>>

\* the caller is between two calls.  A call that returned an error left the
\* tables as they were before it, so the calls that follow it lead where the
\* calls from the state before it lead, and are not taken again.
BetweenCalls(t) == tx[t].pc \in {"idle", "committed"}

\* InsertSubscription is called with payload s: c.Begin()
BeginInsert ==
    \E t \in StepCallers, id \in SubIDs, owner \in Owners, w \in StepWindows,
       cu \in SubCellChoices :
        /\ BetweenCalls(t)
        /\ tx' = [tx EXCEPT ![t] = [IdleTx EXCEPT
                     !.pc = "fetch", !.op = "InsertSubscription", !.open = TRUE,
                     !.s = <<SubPayload(id, owner, "u1", w, NULL, cu)>>]]
        /\ UNCHANGED <<tables, clock, declared, res>>

\* UpdateSubscription is called with payload s: c.Begin()
BeginUpdateSteps ==
    \E t \in StepCallers, id \in SubIDs, owner \in Owners, u \in HeldTimestamps,
       cu \in SubCellChoices :
        LET s == SubPayload(id, owner, "u2", <<NULL, NULL>>, u, cu) IN
        /\ BetweenCalls(t)
        /\ tx' = [tx EXCEPT ![t] = [IdleTx EXCEPT
                     !.pc = "fetch", !.op = "UpdateSubscription", !.open = TRUE,
                     !.s = <<s>>, !.valid = TokenValid(s)]]
        /\ UNCHANGED <<tables, clock, declared, res>>

\* the fetch of either operation and the switch on its result: every case
\* that returns rolls back
FetchStep ==
    \E t \in StepCallers, fails \in StatementFails :
        LET s == tx[t].s[1]
            old == IF tx[t].op = "InsertSubscription"
                   THEN fetchSubscriptionByID(s.ID)
                   ELSE fetchSubscriptionByIDAndOwner(subscriptions, s.ID, s.Owner)
        IN /\ tx[t].pc = "fetch"
           /\ IF fails THEN ReturnErr(t, "DBError")
              ELSE IF tx[t].op = "InsertSubscription"
              THEN IF old # <<>> THEN ReturnErr(t, "AlreadyExists")
                   ELSE /\ tx' = [tx EXCEPT ![t].pc = "upsert"]
                        /\ UNCHANGED <<tables, clock, declared, res>>
              ELSE IF old = <<>> THEN ReturnErr(t, "NotFound")
              ELSE IF SubVersion(s) # SubVersion(old[1]) THEN ReturnErr(t, "VersionMismatch")
              ELSE /\ tx' = [tx EXCEPT ![t].pc = "upsert", ![t].old = old]
                   /\ UNCHANGED <<tables, clock, declared, res>>

\* pushSubscription, upsertQuery: the error is returned as it is
UpsertRowStep ==
    \E t \in StepCallers, fails \in StatementFails :
        /\ tx[t].pc = "upsert"
        /\ IF fails THEN ReturnErrNoRollback(t, "DBError")
           ELSE IF ~SubscriptionCheck(upsertRow(Pushing(t), clock + 1))
           THEN ReturnErrNoRollback(t, "Constraint")
           ELSE /\ tx' = [tx EXCEPT ![t].pc = "cells", ![t].rowW = TRUE]
                /\ Visible(t, tx'[t])

\* pushSubscription, one subscriptionCellQuery of the loop
UpsertCellStep ==
    \E t \in StepCallers, fails \in StatementFails :
        /\ tx[t].pc = "cells"
        /\ RemainingCells(t) # {}
        /\ IF fails THEN ReturnErrNoRollback(t, "DBError")
           ELSE /\ tx' = [tx EXCEPT ![t].up = @ \cup {NextCell(t)}]
                /\ Visible(t, tx'[t])

\* pushSubscription, deleteLeftOverCellsForSubscriptionQuery after the loop
SweepStep ==
    \E t \in StepCallers, fails \in StatementFails :
        /\ tx[t].pc = "cells"
        /\ RemainingCells(t) = {}
        /\ IF fails THEN ReturnErrNoRollback(t, "DBError")
           ELSE /\ tx' = [tx EXCEPT ![t].pc = "commit", ![t].swept = TRUE]
                /\ Visible(t, tx'[t])

\* tx.Commit(): what the transaction wrote becomes visible, or its error is
\* returned
CommitStep ==
    \E t \in StepCallers, fails \in StatementFails :
        /\ tx[t].pc = "commit"
        /\ IF fails THEN ReturnErr(t, "DBError")
           ELSE /\ clock < T0 + MaxTicks
                /\ clock' = clock + 1
                /\ subscriptions' = WrittenRows(t, clock')
                /\ cells_subscriptions' = WrittenCells(t)
                /\ declared' = Upsert(declared, Pushing(t).ID, CellSet(Pushing(t).Cells))
                /\ res' = [NoResult EXCEPT !.op = tx[t].op, !.id = Pushing(t).ID,
                                           !.owner = Pushing(t).Owner,
                                           !.version = SubVersion(tx[t].s[1]),
                                           !.sub = <<pushed(Pushing(t), clock')>>]
                /\ tx' = [tx EXCEPT ![t].pc = "committed", ![t].open = FALSE]
                /\ UNCHANGED <<isas, cells_isas>>

\* Store.DeleteSubscription between two calls
DeleteBetweenCalls ==
    /\ \A t \in StepCallers : BetweenCalls(t)
    /\ UNCHANGED tx
    /\ \E id \in DOMAIN subscriptions :
          DeleteSubscriptionOp(id, subscriptions[id].owner,
                               SubVersion(SubFromRow(id, subscriptions[id])))

NextSteps ==
    \/ BeginInsert
    \/ BeginUpdateSteps
    \/ FetchStep
    \/ UpsertRowStep
    \/ UpsertCellStep
    \/ SweepStep
    \/ CommitStep
    \/ DeleteBetweenCalls

SpecSteps == Init /\ [][NextSteps]_vars

\* ====================================================== response assembly
\* (unnamed/part_000, the file up to line 497: the store that hands the
\* models their transaction and answers in wire format)
\* res.open tells whether the operation returned with its transaction
\* neither committed nor rolled back.

\* the last time ptypes.TimestampProto converts; a later one is an error
MaxWireTime == T0 + MaxTicks + 1

\* the (start, end) pairs of the payloads: within the wire range or past it
WireWindows == {<<NULL, NULL>>, <<T0 + 2, NULL>>, <<NULL, MaxWireTime>>,
                <<NULL, MaxWireTime + 1>>, <<MaxWireTime + 1, NULL>>}

\* ptypes.TimestampProto(t) returns an error
TimestampProtoErr(t) == t # NULL /\ t > MaxWireTime

\* ToProto of a subscription returns an error: a time that is set does not
\* convert
ToProtoErr(s) == TimestampProtoErr(s.StartTime) \/ TimestampProtoErr(s.EndTime)

\* an operation that returns err with its transaction left as open says
Unassembled(op, s, err, open) ==
    /\ res' = [NoResult EXCEPT !.op = op, !.id = s.ID, !.owner = s.Owner,
                               !.err = err, !.open = open,
                               !.window = <<s.StartTime, s.EndTime>>]
    /\ UNCHANGED <<tables, clock, declared>>

\* Store.InsertSubscription: sub.Insert and the cell INSERTs roll back on an
\* error; the error of sub.ToProto() is returned as it is; then tx.Commit()
InterimInsertSubscriptionOp(s) ==
    IF s.ID \in DOMAIN subscriptions
    THEN Unassembled("InsertSubscription", s, "DuplicateKey", FALSE)
    ELSE IF ~SubscriptionCheck(upsertRow(s, clock + 1))
    THEN Unassembled("InsertSubscription", s, "Constraint", FALSE)
    ELSE IF ToProtoErr(s)
    THEN Unassembled("InsertSubscription", s, "ToProto", TRUE)
    ELSE CommitRow("InsertSubscription", s.ID, upsertRow(s, clock + 1),
                   CellSet(s.Cells), SubVersion(s))

\* Store.GetSubscription: the errors of models.GetSubscription and of
\* sub.ToProto() both roll back
InterimGetSubscriptionOp(id) ==
    LET sub == fetchSubscriptionByID(id) IN
    /\ res' = [NoResult EXCEPT !.op = "GetSubscription", !.id = id,
                               !.err = IF sub = <<>> THEN "ErrNoRows"
                                       ELSE IF ToProtoErr(sub[1]) THEN "ToProto"
                                       ELSE "",
                               !.sub = IF sub # <<>> /\ ~ToProtoErr(sub[1])
                                       THEN sub ELSE <<>>]
    /\ UNCHANGED <<tables, clock, declared>>

InterimInsertSubscription ==
    /\ Settled
    /\ UNCHANGED tx
    /\ \E id \in SubIDs, owner \in Owners, w \in WireWindows, cu \in SubCellChoices :
        InterimInsertSubscriptionOp(SubPayload(id, owner, "u1", w, NULL, cu))

InterimGetSubscription ==
    /\ Settled
    /\ UNCHANGED tx
    /\ \E id \in SubIDs : InterimGetSubscriptionOp(id)

NextInterim ==
    \/ InterimInsertSubscription
    \/ InterimGetSubscription

SpecInterim == Init /\ [][NextInterim]_vars

\* ================================================================= searches
\* (unnamed/part_001, Store.SearchSubscriptions; Store.SearchISAs after the
\* design document, section 4.D)

\* the cell sets callers search in
SearchCellSets == SUBSET Cells

\* the (earliest, latest) pairs callers search ISAs with: none, the range of
\* the stored ISAs, one that encloses it, and one that lies after its end
SearchWindows ==
    {<<NULL, NULL>>, <<T0 + 1, T0 + MaxTicks + 1>>, <<T0, T0 + MaxTicks + 2>>,
     <<T0 + MaxTicks + 2, T0 + MaxTicks + 3>>}

\* the rows of cells_subscriptions with a cell of cells: how many there are
\* of each subscription id
indexRowsOfSubscriptions(cells) ==
    [id \in {p[2] : p \in {q \in cells_subscriptions : q[1] \in cells}} |->
        Cardinality({q \in cells_subscriptions : q[1] \in cells /\ q[2] = id})]

\* the subquery without DISTINCT, a row for each index row: the variant that
\* SearchReturnsEachOnce tells from the code
repeated_subscription_ids(cells) == indexRowsOfSubscriptions(cells)

\* "SELECT DISTINCT cells_subscriptions.subscription_id FROM
\* cells_subscriptions WHERE cells_subscriptions.cell_id = ANY($1)": one row
\* for each id
unique_subscription_ids(cells) ==
    [id \in DOMAIN indexRowsOfSubscriptions(cells) |-> 1]

\* the query of SearchSubscriptions: the ids of the rows it returns.  The
\* subquery (the subscriptions with an index row in cells) is LEFT JOINed, so
\* every row of subscriptions is kept; WHERE keeps the rows of the owner.
subscriptionsInCells(cells, owner) ==
    LET ids == DOMAIN unique_subscription_ids(cells)
        joined == {<<id, m>> : id \in DOMAIN subscriptions, m \in {TRUE, FALSE}}
    IN {j[1] : j \in {k \in joined :
                        /\ k[2] = (k[1] \in ids)
                        /\ subscriptions[k[1]].owner = owner}}

\* the rows the query returns, as the number of rows of each subscription id:
\* a row of subscriptions comes back once for each row of the subquery with
\* its id, and once when there is none (LEFT JOIN)
subscriptionRows(cells, owner) ==
    LET u == unique_subscription_ids(cells) IN
    [id \in subscriptionsInCells(cells, owner) |-> IF id \in DOMAIN u THEN u[id] ELSE 1]

\* the subquery of SearchISAs, as that of SearchSubscriptions
unique_isa_ids(cells) ==
    [id \in {p[2] : p \in {q \in cells_isas : q[1] \in cells}} |-> 1]

\* the rows SearchISAs returns for the ISAs ids, as the number of rows of
\* each id
isaRows(cells, ids) == [id \in ids |-> unique_isa_ids(cells)[id]]

\* SearchSubscriptions without the test of len(cells): the variant that
\* EmptySearchIsBadRequest tells from the code
SearchSubscriptionsOpUnchecked(cells, owner) ==
    /\ res' = [NoResult EXCEPT !.op = "SearchSubscriptions", !.owner = owner,
                               !.cells = cells,
                               !.list = subscriptionsInCells(cells, owner),
                               !.rows = subscriptionRows(cells, owner)]
    /\ UNCHANGED <<tables, clock, declared>>

\* Store.SearchSubscriptions: dsserr.BadRequest before c.Begin() when there
\* are no cells, the query in a transaction otherwise
SearchSubscriptionsOp(cells, owner) ==
    /\ res' = IF cells = {}
              THEN [NoResult EXCEPT !.op = "SearchSubscriptions", !.owner = owner,
                                    !.cells = cells, !.err = "BadRequest"]
              ELSE [NoResult EXCEPT !.op = "SearchSubscriptions", !.owner = owner,
                                    !.cells = cells,
                                    !.list = subscriptionsInCells(cells, owner),
                                    !.rows = subscriptionRows(cells, owner)]
    /\ UNCHANGED <<tables, clock, declared>>

\* the ISA row overlaps the time range searched
IsaInWindow(row, earliest, latest) ==
    /\ earliest = NULL \/ row.ends_at >= earliest
    /\ latest = NULL \/ row.starts_at <= latest

\* SearchISAs without the predicate on the times: the variant that
\* SearchISAsByCellAndTime tells from the operation
SearchISAsOpAnyTime(cells, earliest, latest) ==
    /\ res' = [NoResult EXCEPT !.op = "SearchISAs", !.cells = cells,
                               !.window = <<earliest, latest>>,
                               !.err = IF cells = {} THEN "BadRequest" ELSE "",
                               !.list = {id \in DOMAIN isas :
                                            RowsOf(cells_isas, id) \cap cells # {}},
                               !.rows = isaRows(cells,
                                                {id \in DOMAIN isas :
                                                    RowsOf(cells_isas, id) \cap cells # {}})]
    /\ UNCHANGED <<tables, clock, declared>>

\* Store.SearchISAs
SearchISAsOp(cells, earliest, latest) ==
    /\ res' = [NoResult EXCEPT !.op = "SearchISAs", !.cells = cells,
                               !.window = <<earliest, latest>>,
                               !.err = IF cells = {} THEN "BadRequest" ELSE "",
                               !.list = {id \in DOMAIN isas :
                                            /\ RowsOf(cells_isas, id) \cap cells # {}
                                            /\ IsaInWindow(isas[id], earliest, latest)},
                               !.rows = isaRows(cells,
                                                {id \in DOMAIN isas :
                                                    /\ RowsOf(cells_isas, id) \cap cells # {}
                                                    /\ IsaInWindow(isas[id], earliest, latest)})]
    /\ UNCHANGED <<tables, clock, declared>>

SearchSubscriptions ==
    /\ Settled
    /\ UNCHANGED tx
    /\ \E cells \in SearchCellSets, owner \in Owners : SearchSubscriptionsOp(cells, owner)

SearchISAs ==
    /\ Settled
    /\ UNCHANGED tx
    /\ \E cells \in SearchCellSets, w \in SearchWindows : SearchISAsOp(cells, w[1], w[2])

\* an ISA is inserted over all the cells (Store.InsertISA)
InsertISAOverCells ==
    /\ Settled
    /\ UNCHANGED tx
    /\ \E id \in IsaIDs, owner \in Owners, w \in IsaWindows :
          InsertISAOp(IsaPayload(id, owner, "f1", w, NULL, <<Cells>>))

NextSearch ==
    \/ InsertSubscription
    \/ InsertISA
    \/ InsertISAOverCells
    \/ SearchSubscriptions
    \/ SearchISAs

SpecSearch == Init /\ [][NextSearch]_vars

\* =========================================================== version strings
\* (unnamed/part_000: timestampToVersionString, versionStringToTimestamp and
\* the two toProtobuf; models.VersionFromTimestamp after the design document)

\* the nanosecond counts t.UnixNano() can return
UnixNanos == (-(2 ^ (TimeBits - 1)))..(2 ^ (TimeBits - 1) - 1)

\* an updated_at column holds any time; no row is stored
InitVersion ==
    /\ subscriptions = EmptyTable
    /\ cells_subscriptions = {}
    /\ isas = EmptyTable
    /\ cells_isas = {}
    /\ clock \in UnixNanos
    /\ declared = EmptyTable
    /\ res = NoResult
    /\ tx = [t \in TxIDs |-> IdleTx]

\* subscriptionsRow.toProtobuf, its Version, for a row with updated_at = clock
SubscriptionRowVersion ==
    /\ res.op = "none"
    /\ res' = [NoResult EXCEPT !.op = "subscriptionsRow.toProtobuf",
                               !.version = timestampToVersionString(clock)]
    /\ UNCHANGED <<tables, clock, declared, tx>>

\* identificationServiceAreaRow.toProtobuf, its Version, for a row with
\* updated_at = clock
IsaRowVersion ==
    /\ res.op = "none"
    /\ res' = [NoResult EXCEPT !.op = "identificationServiceAreaRow.toProtobuf",
                               !.version = FormatInt(clock, 10)]
    /\ UNCHANGED <<tables, clock, declared, tx>>

\* Version() of an entity of the models store with or without UpdatedAt
EntityVersion ==
    /\ res.op = "none"
    /\ \E u \in {NULL, clock} :
          res' = [NoResult EXCEPT !.op = "Version", !.time = u,
                                  !.version = VersionFromTimestamp(u)]
    /\ UNCHANGED <<tables, clock, declared, tx>>

\* versionStringToTimestamp of the version string a caller was handed
ParseVersion ==
    /\ res.op \in {"subscriptionsRow.toProtobuf", "identificationServiceAreaRow.toProtobuf"}
    /\ res' = [NoResult EXCEPT
                 !.op = IF res.op = "subscriptionsRow.toProtobuf"
                        THEN "versionStringToTimestamp"
                        ELSE "versionStringToTimestamp of ISA",
                 !.version = res.version,
                 !.err = IF ParseUint(res.version, versionBase) = -1
                         THEN "ParseUint" ELSE "",
                 !.time = versionStringToTimestamp(res.version)]
    /\ UNCHANGED <<tables, clock, declared, tx>>

NextVersion ==
    \/ SubscriptionRowVersion
    \/ IsaRowVersion
    \/ EntityVersion
    \/ ParseVersion

SpecVersion == InitVersion /\ [][NextVersion]_vars

\* ==================================================================== Apply
\* (IdentificationServiceArea.Apply of the models package,
\* subscriptionsRow.applyProtobuf of unnamed/part_000)

\* the ISAs Apply is called on
IsaReceivers ==
    {IsaPayload(id, owner, "f1", w, T0 + 1, cu) :
        id \in IsaIDs, owner \in Owners, w \in IsaWindows, cu \in IsaCellChoices}

\* the overlays callers build: any field set or not
IsaOverlays ==
    {IsaPayload(id, owner, url, w, NULL, cu) :
        id \in {""} \cup IsaIDs, owner \in {""} \cup Owners, url \in {"", "f2"},
        w \in PatchWindows, cu \in {NilCells} \cup IsaCellChoices}

\* the rows applyProtobuf is called on: the zero row of insertSubscription
\* and the rows updateSubscription scans
RowReceivers ==
    {[id |-> "", row |-> zeroRow]} \cup
    {[id |-> id,
      row |-> [owner |-> owner, url |-> "u1", notification_index |-> 0,
               starts_at |-> w[1], ends_at |-> w[2], updated_at |-> T0 + 1]] :
        id \in SubIDs, owner \in Owners, w \in {<<NULL, NULL>>, <<T0 + 1, T0 + 3>>}}

\* the requests applyProtobuf is given
PbOverlays ==
    {PbSubscription(id, owner, url, w, <<>>) :
        id \in {""} \cup SubIDs, owner \in {""} \cup Owners, url \in {"", "u2"},
        w \in PatchWindows}

\* a receiver is at hand, nothing is stored
InitApply ==
    /\ subscriptions = EmptyTable
    /\ cells_subscriptions = {}
    /\ isas = EmptyTable
    /\ cells_isas = {}
    /\ clock = T0
    /\ declared = EmptyTable
    /\ res \in {[NoResult EXCEPT !.op = "receiver", !.recv = <<s>>] :
                   s \in IsaReceivers \cup RowReceivers}
    /\ tx = [t \in TxIDs |-> IdleTx]

\* s.Apply(i2): the merge is made on a copy of *s and returned; res.arg is
\* the receiver before the call and i2, res.recv the receiver after it
ApplyIsa ==
    /\ res.op = "receiver"
    /\ res.recv[1] \in IsaReceivers
    /\ \E i2 \in IsaOverlays :
          res' = [NoResult EXCEPT !.op = "IdentificationServiceArea.Apply",
                                  !.arg = <<res.recv[1], i2>>,
                                  !.recv = res.recv,
                                  !.isa = <<IsaApply(res.recv[1], i2)>>]
    /\ UNCHANGED <<tables, clock, declared, tx>>

\* sr.applyProtobuf(subscription): the fields of *sr are assigned, the id as
\* well, and only an error is returned
ApplyProtobuf ==
    /\ res.op = "receiver"
    /\ res.recv[1] \in RowReceivers
    /\ \E pb \in PbOverlays :
          res' = [NoResult EXCEPT
                    !.op = "subscriptionsRow.applyProtobuf",
                    !.arg = <<res.recv[1], pb>>,
                    !.recv = <<[id |-> IF pb.Id # "" THEN pb.Id ELSE res.recv[1].id,
                                row |-> applyProtobuf(res.recv[1].row, pb)]>>]
    /\ UNCHANGED <<tables, clock, declared, tx>>

NextApply ==
    \/ ApplyIsa
    \/ ApplyProtobuf

SpecApply == InitApply /\ [][NextApply]_vars

\* ================================================================= geo: area
\* (package geo: maxLoopArea and the area test of Covering)

\* float64 values are kept as fractions <<numerator, denominator>> in lowest
\* terms, so that the products of the code are exact
RECURSIVE GCD(_, _)
GCD(a, b) == IF b = 0 THEN a ELSE GCD(b, a % b)

\* x * y
RatMul(x, y) ==
    LET g1 == GCD(x[1], y[2])
        g2 == GCD(y[1], x[2])
    IN <<(x[1] \div g1) * (y[1] \div g2), (x[2] \div g2) * (y[2] \div g1)>>

\* x / y
RatDiv(x, y) == RatMul(x, <<y[2], y[1]>>)

\* x > y
RatGT(x, y) ==
    LET g == GCD(x[2], y[2])
    IN x[1] * (y[2] \div g) > y[1] * (x[2] \div g)

\* math.Pi, to three digits
Pi == <<22, 7>>

maxAllowedSqMi == 1000

\* rough square miles of earth
sqMiEarth == 197000000

\* sqMiEarth / 4. * math.Pi: the division, then the product
scalingFactor == RatMul(RatDiv(<<sqMiEarth, 1>>, <<4, 1>>), Pi)

maxLoopArea == RatDiv(<<maxAllowedSqMi, 1>>, scalingFactor)

\* loop.Area() of a loop that encloses sqMi square miles of the earth: its
\* share of the 4 * pi of the unit sphere
LoopArea(sqMi) == RatDiv(<<sqMi, 1>>, RatDiv(<<sqMiEarth, 1>>, RatMul(<<4, 1>>, Pi)))

\* Covering, its error: errBadCoordSet and errAreaTooLarge (both
\* dsserr.BadRequest), or none and the covering of the loop
CoveringErr(loopArea) ==
    IF ~RatGT(loopArea, <<0, 1>>) THEN "errBadCoordSet"
    ELSE IF RatGT(loopArea, maxLoopArea) THEN "errAreaTooLarge"
    ELSE ""

\* the loops callers ask a covering of, by the square miles they enclose
LoopSqMi == {10 * k : k \in 0..MaxLoopTens}

\* a loop is at hand, nothing is stored
InitCovering ==
    /\ subscriptions = EmptyTable
    /\ cells_subscriptions = {}
    /\ isas = EmptyTable
    /\ cells_isas = {}
    /\ clock = T0
    /\ declared = EmptyTable
    /\ res \in {[NoResult EXCEPT !.op = "loop", !.arg = <<sqMi>>] : sqMi \in LoopSqMi}
    /\ tx = [t \in TxIDs |-> IdleTx]

Covering ==
    /\ res.op = "loop"
    /\ res' = [NoResult EXCEPT !.op = "Covering", !.arg = res.arg,
                               !.err = CoveringErr(LoopArea(res.arg[1]))]
    /\ UNCHANGED <<tables, clock, declared, tx>>

NextCovering == Covering

SpecCovering == InitCovering /\ [][NextCovering]_vars

\* ========================================================== geo: area strings
\* (package geo: AreaToCellIDs)

\* the fields between the commas of an area string, by what they hold: a
\* finite number, nothing, a text that is no number, and the texts "NaN" and
\* "Inf"
Fields == {"1", "", "x", "NaN", "Inf"}

\* the area strings callers send, as the sequences of their fields (the
\* empty string is one empty field)
AreaStrings == UNION {[1..n -> Fields] : n \in 1..MaxFields}

\* strconv.ParseFloat(field, 64) returns an error: it does for the empty
\* field and for a text that is no number, and does not for "NaN" and "Inf",
\* which it parses to the NaN and the infinity of float64
ParseFloatFails(field) == field \in {"", "x"}

\* the tokens scanner.Scan() yields with splitAtComma: every field, but not
\* an empty field after the last comma (no data is left at EOF)
ScannedTokens(area) ==
    IF area[Len(area)] = "" THEN SubSeq(area, 1, Len(area) - 1) ELSE area

\* the errors made by dsserr.BadRequest in package geo
geoBadRequests ==
    {"errOddNumberOfCoordinatesInAreaString", "errNotEnoughPointsInPolygon",
     "errBadCoordSet", "errAreaTooLarge"}

\* AreaToCellIDs, its error for an area string whose loop, when the string
\* parses, encloses sqMi square miles ("" for none: a cell union is returned)
AreaToCellIDsErr(area, sqMi) ==
    LET numCoords == Len(area) IN
    IF numCoords % 2 = 1 THEN "errOddNumberOfCoordinatesInAreaString"
    ELSE IF numCoords \div 2 < 3 THEN "errNotEnoughPointsInPolygon"
    ELSE IF \E i \in 1..Len(ScannedTokens(area)) : ParseFloatFails(ScannedTokens(area)[i])
    THEN "strconv.NumError"
    ELSE CoveringErr(LoopArea(sqMi))

\* what loop.Area() makes of the points: nothing, a small area, a large one;
\* the points of NaN or infinite coordinates give any of them
LoopChoices == {0, 10, 10 * MaxLoopTens}

\* an area string is at hand, nothing is stored
InitArea ==
    /\ subscriptions = EmptyTable
    /\ cells_subscriptions = {}
    /\ isas = EmptyTable
    /\ cells_isas = {}
    /\ clock = T0
    /\ declared = EmptyTable
    /\ res \in {[NoResult EXCEPT !.op = "area", !.arg = <<area>>] : area \in AreaStrings}
    /\ tx = [t \in TxIDs |-> IdleTx]

\* AreaToCellIDs(area): res.cells is the cell union returned
AreaToCellIDs ==
    /\ res.op = "area"
    /\ \E sqMi \in LoopChoices :
          res' = [NoResult EXCEPT
                    !.op = "AreaToCellIDs", !.arg = res.arg,
                    !.err = AreaToCellIDsErr(res.arg[1], sqMi),
                    !.cells = IF AreaToCellIDsErr(res.arg[1], sqMi) = "" THEN Cells ELSE {}]
    /\ UNCHANGED <<tables, clock, declared, tx>>

NextArea == AreaToCellIDs

SpecArea == InitArea /\ [][NextArea]_vars

\* ============================================================== RPC handlers
\* (pkg/dss/server.go)

\* what auth.OwnerFromContext finds in the context of a request: an owner,
\* or none
NoOwner == ""
CtxOwners == Owners \cup {NoOwner}

\* the area strings of search requests with the square miles their loop
\* encloses: a good one, an oversized one, one with an odd number of
\* coordinates, one with a field that is no number
SearchAreas ==
    {<<<<"1", "1", "1", "1", "1", "1">>, 10>>,
     <<<<"1", "1", "1", "1", "1", "1">>, 10 * MaxLoopTens>>,
     <<<<"1">>, 10>>,
     <<<<"x", "1", "1", "1", "1", "1">>, 10>>}

\* the handler of caller "t1" is rpc, called with request req
Rpc(rpc, req) == tx' = [tx EXCEPT !["t1"] = [IdleTx EXCEPT !.op = rpc, !.s = <<req>>]]

\* the handler returns err, or its response, without a call of the Store
Returns(rpc, req, err) ==
    /\ res' = [NoResult EXCEPT !.op = rpc, !.id = req.id, !.owner = req.owner,
                               !.err = err]
    /\ UNCHANGED <<tables, clock, declared>>

\* a handler that took every context for one with an owner: the variant that
\* NoOwnerIsPermissionDenied tells from the code
ownerAlwaysOK(owner) == TRUE

\* "owner, ok := auth.OwnerFromContext(ctx)": ok
ownerOK(owner) == owner # NoOwner

\* models.Version.ToTimestamp fails: the version is no base-32 number
ToTimestampFails(version) == ParseUint(version, versionBase) = -1

\* another client of the Store inserts a subscription
StoreInsertSubscription ==
    /\ Settled
    /\ \E id \in SubIDs, owner \in Owners :
          LET s == SubPayload(id, owner, "u1", <<NULL, NULL>>, NULL, <<{1}>>) IN
          /\ Rpc("Store.InsertSubscription", [id |-> id, owner |-> owner])
          /\ InsertSubscriptionOp(s)

\* Server.PutIdentificationServiceArea
PutIdentificationServiceArea ==
    /\ Settled
    /\ \E owner \in CtxOwners, id \in IsaIDs, params \in BOOLEAN, extents \in BOOLEAN,
          w \in IsaWindows, cu \in IsaCellChoices :
          LET req == [id |-> id, owner |-> owner, params |-> params, extents |-> extents,
                      w |-> w, cu |-> cu]
          IN /\ Rpc("Server.PutIdentificationServiceArea", req)
             /\ IF ~ownerOK(owner)
                THEN Returns("Server.PutIdentificationServiceArea", req, "PermissionDenied")
                ELSE IF ~params
                THEN Returns("Server.PutIdentificationServiceArea", req, "BadRequest")
                ELSE IF ~extents
                THEN Returns("Server.PutIdentificationServiceArea", req, "SetExtents")
                ELSE InsertISAOp(IsaPayload(id, owner, "f1", w, NULL, cu))

\* Server.PatchIdentificationServiceArea
PatchIdentificationServiceArea ==
    /\ Settled
    /\ \E owner \in CtxOwners, id \in IsaIDs, params \in BOOLEAN, extents \in BOOLEAN,
          u \in HeldTimestamps, cu \in IsaCellChoices :
          LET req == [id |-> id, owner |-> owner, params |-> params, extents |-> extents,
                      version |-> VersionFromTimestamp(u), cu |-> cu]
          IN /\ Rpc("Server.PatchIdentificationServiceArea", req)
             /\ IF ~ownerOK(owner)
                THEN Returns("Server.PatchIdentificationServiceArea", req, "PermissionDenied")
                ELSE IF ~params \/ ToTimestampFails(req.version)
                THEN Returns("Server.PatchIdentificationServiceArea", req, "BadRequest")
                ELSE IF ~extents
                THEN Returns("Server.PatchIdentificationServiceArea", req, "SetExtents")
                ELSE UpdateISAOp(IsaPayload(id, owner, "f2", <<NULL, NULL>>,
                                            versionStringToTimestamp(req.version), cu))

\* Server.DeleteIdentificationServiceArea
ServerDeleteIdentificationServiceArea ==
    /\ Settled
    /\ \E owner \in CtxOwners, id \in IsaIDs, u \in HeldTimestamps :
          LET req == [id |-> id, owner |-> owner, version |-> VersionFromTimestamp(u)]
          IN /\ Rpc("Server.DeleteIdentificationServiceArea", req)
             /\ IF ~ownerOK(owner)
                THEN Returns("Server.DeleteIdentificationServiceArea", req, "PermissionDenied")
                ELSE DeleteISAOp(id, owner, req.version)

\* Server.DeleteSubscription
ServerDeleteSubscription ==
    /\ Settled
    /\ \E owner \in CtxOwners, id \in SubIDs, u \in HeldTimestamps :
          LET req == [id |-> id, owner |-> owner, version |-> VersionFromTimestamp(u)]
          IN /\ Rpc("Server.DeleteSubscription", req)
             /\ IF ~ownerOK(owner)
                THEN Returns("Server.DeleteSubscription", req, "PermissionDenied")
                ELSE DeleteSubscriptionOp(id, owner, req.version)

\* Server.SearchIdentificationServiceAreas: no owner is asked for; the error
\* of geo.AreaToCellIDs is wrapped in dsserr.Internal
ServerSearchIdentificationServiceAreas ==
    /\ Settled
    /\ \E a \in SearchAreas, w \in SearchWindows :
          LET req == [id |-> "", owner |-> NoOwner, area |-> a[1], sqMi |-> a[2], w |-> w]
          IN /\ Rpc("Server.SearchIdentificationServiceAreas", req)
             /\ IF AreaToCellIDsErr(a[1], a[2]) # ""
                THEN Returns("Server.SearchIdentificationServiceAreas", req, "Internal")
                ELSE SearchISAsOp(Cells, w[1], w[2])

\* Server.SearchSubscriptions: the error of geo.AreaToCellIDs is returned as
\* it is
ServerSearchSubscriptions ==
    /\ Settled
    /\ \E owner \in CtxOwners, a \in SearchAreas :
          LET req == [id |-> "", owner |-> owner, area |-> a[1], sqMi |-> a[2]]
          IN /\ Rpc("Server.SearchSubscriptions", req)
             /\ IF ~ownerOK(owner)
                THEN Returns("Server.SearchSubscriptions", req, "PermissionDenied")
                ELSE IF AreaToCellIDsErr(a[1], a[2]) # ""
                THEN Returns("Server.SearchSubscriptions", req, AreaToCellIDsErr(a[1], a[2]))
                ELSE SearchSubscriptionsOp(Cells, owner)

\* Server.GetSubscription
ServerGetSubscription ==
    /\ Settled
    /\ \E id \in SubIDs :
          /\ Rpc("Server.GetSubscription", [id |-> id, owner |-> NoOwner])
          /\ GetSubscriptionOp(id)

\* Server.PatchSubscription: the subscription is built from the request and
\* returned; the Store is not called
PatchSubscription ==
    /\ Settled
    /\ \E owner \in CtxOwners, id \in SubIDs, params \in BOOLEAN, extents \in BOOLEAN,
          u \in HeldTimestamps :
          LET req == [id |-> id, owner |-> owner, params |-> params, extents |-> extents,
                      version |-> VersionFromTimestamp(u), url |-> "u2"]
          IN /\ Rpc("Server.PatchSubscription", req)
             /\ IF ~ownerOK(owner)
                THEN Returns("Server.PatchSubscription", req, "PermissionDenied")
                ELSE IF ~params \/ ToTimestampFails(req.version) \/ ~extents
                THEN Returns("Server.PatchSubscription", req, "BadRequest")
                ELSE Returns("Server.PatchSubscription", req, "")

\* Server.PutSubscription: the subscription is built from the request and
\* returned; the Store is not called
PutSubscription ==
    /\ Settled
    /\ \E owner \in CtxOwners, id \in SubIDs, params \in BOOLEAN, extents \in BOOLEAN :
          LET req == [id |-> id, owner |-> owner, params |-> params, extents |-> extents,
                      url |-> "u1"]
          IN /\ Rpc("Server.PutSubscription", req)
             /\ IF ~ownerOK(owner)
                THEN Returns("Server.PutSubscription", req, "PermissionDenied")
                ELSE IF ~params \/ ~extents
                THEN Returns("Server.PutSubscription", req, "BadRequest")
                ELSE Returns("Server.PutSubscription", req, "")

NextServer ==
    \/ StoreInsertSubscription
    \/ PutIdentificationServiceArea
    \/ PatchIdentificationServiceArea
    \/ ServerDeleteIdentificationServiceArea
    \/ ServerDeleteSubscription
    \/ ServerSearchIdentificationServiceAreas
    \/ ServerSearchSubscriptions
    \/ ServerGetSubscription
    \/ PatchSubscription
    \/ PutSubscription

SpecServer == Init /\ [][NextServer]_vars

\* ======================================================= a caller that deletes
\* (unnamed/part_001, Store.DeleteSubscription, Store.GetSubscription and
\* Store.InsertSubscription)  A caller deletes a subscription and then, with
\* the request it sent, reads the id, deletes again and inserts the id again,
\* in any order.  tx records where the caller is and the request of its
\* delete.

DeleteCaller == "t1"

\* the positions of the caller after its delete has succeeded
AfterDelete == {"deleted", "got", "again"}

\* the positions of the caller before a delete
BeforeDelete == {"idle", "reinserted"}

\* the caller moves to position pc
CallerAt(pc) == tx' = [tx EXCEPT ![DeleteCaller].pc = pc]

InsertBeforeDelete ==
    /\ Settled
    /\ tx[DeleteCaller].pc \in BeforeDelete
    /\ UNCHANGED tx
    /\ \E id \in SubIDs, owner \in Owners, w \in TimeWindows, cu \in SubCellChoices :
          InsertSubscriptionOp(SubPayload(id, owner, "u1", w, NULL, cu))

\* DeleteSubscription(id, owner, version): the caller keeps the request when
\* the delete succeeds
FirstDelete ==
    /\ Settled
    /\ tx[DeleteCaller].pc \in BeforeDelete
    /\ \E id \in SubIDs, owner \in Owners, u \in HeldTimestamps :
          LET version == VersionFromTimestamp(u) IN
          /\ DeleteSubscriptionOp(id, owner, version)
          /\ IF DeleteSubscriptionErr(subscriptions, id, owner, version) = ""
             THEN tx' = [tx EXCEPT ![DeleteCaller] =
                            [IdleTx EXCEPT !.pc = "deleted", !.op = "DeleteSubscription",
                                           !.s = <<[ID |-> id, Owner |-> owner,
                                                    Version |-> version]>>]]
             ELSE UNCHANGED tx

\* GetSubscription of the id deleted
GetDeleted ==
    /\ tx[DeleteCaller].pc \in AfterDelete
    /\ GetSubscriptionOp(tx[DeleteCaller].s[1].ID)
    /\ CallerAt("got")

\* DeleteSubscription with the request of the delete that succeeded
DeleteAgain ==
    /\ tx[DeleteCaller].pc \in AfterDelete
    /\ DeleteSubscriptionOp(tx[DeleteCaller].s[1].ID, tx[DeleteCaller].s[1].Owner,
                            tx[DeleteCaller].s[1].Version)
    /\ CallerAt("again")

\* InsertSubscription of the id deleted, by any owner
InsertAgain ==
    /\ tx[DeleteCaller].pc \in AfterDelete
    /\ \E owner \in Owners, w \in TimeWindows, cu \in SubCellChoices :
          InsertSubscriptionOp(SubPayload(tx[DeleteCaller].s[1].ID, owner, "u1", w, NULL, cu))
    /\ CallerAt("reinserted")

NextDelete ==
    \/ InsertBeforeDelete
    \/ FirstDelete
    \/ GetDeleted
    \/ DeleteAgain
    \/ InsertAgain

SpecDelete == Init /\ [][NextDelete]_vars

\* ================================================================ properties
\* the operations that mutate an ISA, in either store
IsaMutationOps ==
    {"InsertISA", "UpdateISA", "DeleteISA",
     "insertIdentificationServiceAreaUnchecked", "DeleteIdentificationServiceArea"}

\* the last operation was an ISA mutation and it committed
IsaMutationCommitted == res.op \in IsaMutationOps /\ res.err = ""

\* the ids of the subscriptions the last operation returned as affected
Returned == {t.id : t \in res.subscribers}

\* ------------------------------------------------------------------------ C1
\* C1: for every stored subscription, the set of cells of its rows in
\* cells_subscriptions equals the cell set of its last committed insert or
\* update: a committed update leaves no row of a cell it no longer covers.
CellIndexMatchesDeclared ==
    \A id \in DOMAIN subscriptions : RowsOf(cells_subscriptions, id) = declared[id]

\* ------------------------------------------------------------------------ C2
\* C2: a committed ISA mutation raises the stored notification_index of each
\* subscription it returns by exactly 1 and leaves that of every other
\* subscription as it was; the notification_index in each returned tuple is
\* the one stored after the commit, which GetSubscription reads.
NotifiedExactlyOnce ==
    [][(res'.op \in IsaMutationOps /\ res'.err = "") =>
         /\ DOMAIN subscriptions' = DOMAIN subscriptions
         /\ \A k \in DOMAIN subscriptions :
              subscriptions'[k].notification_index =
                  subscriptions[k].notification_index + (IF k \in Returned' THEN 1 ELSE 0)
         /\ \A t \in res'.subscribers :
              /\ t.id \in DOMAIN subscriptions'
              /\ t.notification_index = subscriptions'[t.id].notification_index]_vars

\* ------------------------------------------------------------------------ C3
\* C3: an ISA mutation by owner O returns no subscription owned by O and
\* changes the notification_index of no subscription owned by O.
OwnSubscriptionsUntouched ==
    [][(res'.op \in IsaMutationOps /\ res'.err = "") =>
         \A k \in DOMAIN subscriptions :
            subscriptions[k].owner = res'.owner =>
               /\ k \notin Returned'
               /\ k \in DOMAIN subscriptions'
               /\ subscriptions'[k].notification_index =
                      subscriptions[k].notification_index]_vars

\* ------------------------------------------------------------------------ C4
\* the time range an update leaves: the fields the caller set over the stored ones
MergedWindow(row, w) ==
    <<IF w[1] # NULL THEN w[1] ELSE row.starts_at,
      IF w[2] # NULL THEN w[2] ELSE row.ends_at>>

ValidWindow(w) == w[1] = NULL \/ w[2] = NULL \/ w[1] < w[2]

\* the step is an UpdateSubscription on a stored subscription by its owner
UpdateByOwnerStep ==
    /\ res'.op = "UpdateSubscription"
    /\ res'.id \in DOMAIN subscriptions
    /\ subscriptions[res'.id].owner = res'.owner

\* the step wrote neither the subscription rows nor their cell rows
SubscriptionTablesKept ==
    subscriptions' = subscriptions /\ cells_subscriptions' = cells_subscriptions

StoredIsaVersion(t, id) == IsaVersion(IsaFromRow(id, t[id]))

\* C6: an UpdateISA by the owner that carries the version of the stored ISA
\* succeeds and returns a new version, which is the stored one from then on;
\* an UpdateISA that carries any other version (an earlier one) fails,
\* returns neither the ISA nor subscribers and writes nothing.  An InsertISA
\* returns the version it stored.  So the version returned by the latest
\* successful mutation is the only one accepted.
IsaVersionChain ==
    [][/\ (res'.op = "InsertISA" /\ res'.err = "") =>
             IsaVersion(res'.isa[1]) = StoredIsaVersion(isas', res'.id)
       /\ (/\ res'.op = "UpdateISA"
           /\ res'.id \in DOMAIN isas
           /\ isas[res'.id].owner = res'.owner) =>
             IF res'.version = StoredIsaVersion(isas, res'.id)
             THEN /\ res'.err = ""
                  /\ res'.isa # <<>>
                  /\ IsaVersion(res'.isa[1]) # res'.version
                  /\ IsaVersion(res'.isa[1]) = StoredIsaVersion(isas', res'.id)
             ELSE /\ res'.err = "VersionMismatch"
                  /\ res'.isa = <<>>
                  /\ res'.subscribers = {}
                  /\ isas' = isas /\ cells_isas' = cells_isas
                  /\ subscriptions' = subscriptions]_vars

\* C6 witness: inserted at v0, updated with v0 to v1, then updated with v1
SecondVersionAccepted ==
    /\ res.op = "UpdateISA"
    /\ res.err = ""
    /\ res.version = VersionFromTimestamp(T0 + 2)
    /\ res.isa[1].UpdatedAt = T0 + 3

\* ------------------------------------------------------------------------ C7
\* C7: an UpdateSubscription or DeleteSubscription by an owner other than the
\* stored one changes neither the subscription row nor its cell rows, and no
\* update changes the stored owner.
OtherOwnerCannotWrite ==
    [][(/\ res'.op \in {"UpdateSubscription", "DeleteSubscription",
                        "updateSubscription", "DeleteSubscriptionV0"}
        /\ res'.id \in DOMAIN subscriptions) =>
          /\ subscriptions[res'.id].owner # res'.owner => SubscriptionTablesKept
          /\ res'.id \in DOMAIN subscriptions' =>
                subscriptions'[res'.id].owner = subscriptions[res'.id].owner]_vars

\* ------------------------------------------------------------------------ C8
\* the updates a caller can send for subscription id as owner, one for each
\* version it can hold
ForeignUpdates(id, owner) ==
    {SubPayload(id, owner, "", <<NULL, NULL>>, u, NilCells) : u \in HeldTimestamps}

AffectedShareCell ==
    /\ \A cs \in SUBSET Cells : \A o \in Owners :
          \A id \in fetchSubscriptionsByCellsWithoutOwner(cs, o) :
             RowsOf(cells_subscriptions, id) \cap cs # {}
    /\ IsaMutationCommitted =>
          \A id \in Returned : RowsOf(cells_subscriptions, id) \cap res.cells # {}

\* ----------------------------------------------------------------------- C10
\* the subscription row is active at time now
Active(row, now) ==
    /\ row.starts_at = NULL \/ row.starts_at <= now
    /\ row.ends_at = NULL \/ row.ends_at >= now

\* C10: every subscription a committed ISA mutation returned is active at the
\* transaction's time: it has begun, or has no start, and has not expired,
\* or has no end.
AffectedAreActive ==
    IsaMutationCommitted =>
       \A id \in Returned : id \in DOMAIN subscriptions /\ Active(subscriptions[id], clock)

\* ------------------------------------------------------------------------ C5
\* both callers have called UpdateSubscription on the same subscription, as
\* the same owner, each with the version that was the stored one when it called
SameVersionUpdates ==
    /\ \A t \in TxIDs : tx[t].pc # "idle" /\ tx[t].valid
    /\ tx["t1"].s[1].ID = tx["t2"].s[1].ID
    /\ tx["t1"].s[1].Owner = tx["t2"].s[1].Owner
    /\ tx["t1"].s[1].UpdatedAt = tx["t2"].s[1].UpdatedAt

\* C5: of two concurrent updates of one subscription that carry the same
\* valid version, at most one commits; the other returns VersionMismatch and
\* what it wrote is not in the store.
ConcurrentLoserGetsVersionMismatch ==
    SameVersionUpdates =>
       /\ ~(\A t \in TxIDs : tx[t].pc = "committed")
       /\ \A t \in TxIDs :
            tx[t].pc = "failed" =>
               /\ tx[t].err = "VersionMismatch"
               /\ subscriptions[tx[t].s[1].ID].url # TxUrl(t)

\* C5 without the kind of the error: at most one of the two commits, and
\* what the one that returned an error wrote is not in the store
AtMostOneCommits ==
    SameVersionUpdates =>
       /\ ~(\A t \in TxIDs : tx[t].pc = "committed")
       /\ \A t \in TxIDs :
            tx[t].pc = "failed" =>
               /\ tx[t].err \in {"VersionMismatch", "SerializationFailure"}
               /\ subscriptions[tx[t].s[1].ID].url # TxUrl(t)

CommitsWholePush(t) ==
    /\ tx[t].pc = "commit"
    /\ tx'[t].pc = "committed"
    /\ subscriptions' = Upsert(subscriptions, Pushing(t).ID, upsertRow(Pushing(t), clock'))
    /\ RowsOf(cells_subscriptions', Pushing(t).ID) = CellSet(Pushing(t).Cells)
    /\ Cascade(cells_subscriptions', Pushing(t).ID) = Cascade(cells_subscriptions, Pushing(t).ID)
    /\ isas' = isas /\ cells_isas' = cells_isas

\* the step is a delete, and it removes the row and all its cell rows
DeletesWhole ==
    /\ res'.op = "DeleteSubscription"
    /\ subscriptions' = DeleteRow(subscriptions, res'.id)
    /\ cells_subscriptions' = Cascade(cells_subscriptions, res'.id)
    /\ isas' = isas /\ cells_isas' = cells_isas

\* C12: the writes of a mutating operation become visible together or not at
\* all: a step that changes the committed tables is the commit of one
\* operation and makes its whole change (the row and exactly its cell rows),
\* a call that returns an error, also after a failure between two cell
\* upserts, changes nothing, and no committed state holds a subscription row
\* without exactly the cell rows of its last committed payload, or cell rows
\* without their subscription row.
WritesVisibleTogether ==
    [][/\ tables' # tables => (DeletesWhole \/ \E t \in StepCallers : CommitsWholePush(t))
       /\ \A t \in StepCallers :
             (tx'[t].pc = "failed" /\ tx[t].pc # "failed") => tables' = tables
       /\ \A id \in DOMAIN subscriptions' :
             /\ id \in DOMAIN declared'
             /\ RowsOf(cells_subscriptions', id) = declared'[id]
       /\ \A p \in cells_subscriptions' : p[2] \in DOMAIN subscriptions']_vars

\* C12 witness: a push failed between two cell upserts, after the row and one
\* cell row were written, and the store shows nothing of the subscription
FailedBetweenCellUpserts ==
    \E t \in StepCallers :
        /\ tx[t].pc = "failed"
        /\ tx[t].op = "InsertSubscription"
        /\ tx[t].rowW
        /\ tx[t].up # {}
        /\ RemainingCells(t) # {}
        /\ tx[t].s[1].ID \notin DOMAIN subscriptions
        /\ RowsOf(cells_subscriptions, tx[t].s[1].ID) = {}

\* ----------------------------------------------------------------------- C13
\* C13: a call of InsertSubscription or UpdateSubscription that has returned
\* an error has rolled its transaction back (or the failed commit has ended
\* it): no error path, the failure of the push included, returns with the
\* transaction still open.
ErrorMeansRolledBack ==
    \A t \in StepCallers : tx[t].pc = "failed" => ~tx[t].open

\* ----------------------------------------------------------------------- C14
\* C14: an operation whose response assembly (the conversion to wire format)
\* fails after its writes succeeded rolls back and returns the error: what
\* it wrote is not committed and its transaction is not left open.
AssemblyFailureRolledBack ==
    res.err = "ToProto" =>
       /\ ~res.open
       /\ res.op = "InsertSubscription" => res.id \notin DOMAIN subscriptions

\* ----------------------------------------------------------------------- C15
\* C15: an InsertSubscription or InsertISA whose id is already stored returns
\* AlreadyExists and no entity, whoever the caller's owner is, and leaves the
\* stored row, its cell rows and every notification_index as they were.
DuplicateInsertRefused ==
    [][(\/ res'.op = "InsertSubscription" /\ res'.id \in DOMAIN subscriptions
        \/ res'.op = "InsertISA" /\ res'.id \in DOMAIN isas) =>
          /\ res'.err = "AlreadyExists"
          /\ res'.sub = <<>>
          /\ res'.isa = <<>>
          /\ res'.subscribers = {}
          /\ tables' = tables]_vars

\* C15 witness: a second InsertSubscription of a stored id, by another owner
\* and with other cells than the stored ones, was answered AlreadyExists
SecondInsertByOtherOwner ==
    /\ res.op = "InsertSubscription"
    /\ res.err = "AlreadyExists"
    /\ res.id \in DOMAIN subscriptions
    /\ subscriptions[res.id].owner # res.owner
    /\ RowsOf(cells_subscriptions, res.id) = {1}

\* ----------------------------------------------------------------------- C16
\* C16: the GetSubscription that follows a successful InsertSubscription of
\* the same id returns an entity equal to the inserted one in every field
\* (id, owner, url, notification_index, start and end time, cells) other
\* than updated_at and the version derived from it.
InsertThenGetEqual ==
    [][(/\ res.op = "InsertSubscription"
        /\ res.err = ""
        /\ res'.op = "GetSubscription"
        /\ res'.id = res.id) =>
          /\ res'.err = ""
          /\ res'.sub # <<>>
          /\ [res'.sub[1] EXCEPT !.UpdatedAt = NULL] = [res.sub[1] EXCEPT !.UpdatedAt = NULL]]_vars

\* ----------------------------------------------------------------------- C17
\* the step is a delete of a stored entity by its owner
DeleteByOwnerStep ==
    \/ /\ res'.op = "DeleteSubscription"
       /\ res'.id \in DOMAIN subscriptions
       /\ subscriptions[res'.id].owner = res'.owner
    \/ /\ res'.op = "DeleteISA"
       /\ res'.id \in DOMAIN isas
       /\ isas[res'.id].owner = res'.owner

\* the version of the stored entity the delete step is about
StoredVersionOfDeleted ==
    IF res'.op = "DeleteSubscription"
    THEN timestampToVersionString(subscriptions[res'.id].updated_at)
    ELSE StoredIsaVersion(isas, res'.id)

\* C17: a DeleteSubscription or DeleteISA by the owner with a version that is
\* not empty and is not the stored one returns VersionMismatch and deletes
\* nothing.
StaleDeleteIsVersionMismatch ==
    [][(/\ DeleteByOwnerStep
        /\ res'.version # <<>>
        /\ res'.version # StoredVersionOfDeleted) =>
          /\ res'.err = "VersionMismatch"
          /\ tables' = tables]_vars

\* ----------------------------------------------------------------------- C18
\* C18: a DeleteSubscription or DeleteISA by the owner with the empty version
\* is a forced delete: it succeeds whatever the stored version is and the
\* entity and its cell rows are gone.
EmptyVersionForcesDelete ==
    [][(DeleteByOwnerStep /\ res'.version = <<>>) =>
          /\ res'.err = ""
          /\ IF res'.op = "DeleteSubscription"
             THEN /\ res'.id \notin DOMAIN subscriptions'
                  /\ RowsOf(cells_subscriptions', res'.id) = {}
             ELSE /\ res'.id \notin DOMAIN isas'
                  /\ RowsOf(cells_isas', res'.id) = {}]_vars

\* ----------------------------------------------------------------------- C19
\* C19: an update (UpdateSubscription, UpdateISA) of a stored entity by its
\* owner with the empty version is never a forced update: it returns
\* VersionMismatch and leaves the stored state unchanged.
EmptyVersionNeverForcesUpdate ==
    [][(/\ res'.version = <<>>
        /\ \/ /\ res'.op \in {"UpdateSubscription", "updateSubscription"}
              /\ res'.id \in DOMAIN subscriptions
              /\ subscriptions[res'.id].owner = res'.owner
           \/ /\ res'.op = "UpdateISA"
              /\ res'.id \in DOMAIN isas
              /\ isas[res'.id].owner = res'.owner) =>
          /\ res'.err = "VersionMismatch"
          /\ tables' = tables]_vars

\* ----------------------------------------------------------------------- C20
\* C20: the notification_index of a stored subscription is changed by ISA
\* mutations only: no other step, and no UpdateSubscription whatever
\* notification_index its payload carries, changes the stored value.
IndexChangedByIsaMutationsOnly ==
    [][\A k \in DOMAIN subscriptions \cap DOMAIN subscriptions' :
          subscriptions'[k].notification_index # subscriptions[k].notification_index =>
             (res'.op \in IsaMutationOps /\ res'.err = "")]_vars

\* ----------------------------------------------------------------------- C21
\* C21: every cell-index row references an entity that is stored: after a
\* committed DeleteSubscription or DeleteISA no row of cells_subscriptions or
\* cells_identification_service_areas with the deleted id is left.
CellRowsReferenceEntities ==
    /\ \A p \in cells_subscriptions : p[2] \in DOMAIN subscriptions
    /\ \A p \in cells_isas : p[2] \in DOMAIN isas

\* C21 witness: a DeleteSubscription committed on a subscription that had
\* cell rows, while another subscription keeps its own
DeletedWithCellRows ==
    /\ res.op = "DeleteSubscription"
    /\ res.err = ""
    /\ res.cells # {}
    /\ res.id \notin DOMAIN subscriptions
    /\ \E k \in DOMAIN subscriptions : RowsOf(cells_subscriptions, k) # {}

\* ----------------------------------------------------------------------- C22
\* C22: SearchSubscriptions(cells, owner) with cells not empty returns exactly
\* the stored subscriptions of that owner that have a cell row with a cell of
\* cells; a subscription of the owner without a cell in cells is not
\* returned.
SearchReturnsOwnedInCells ==
    (res.op = "SearchSubscriptions" /\ res.err = "") =>
       res.list = {id \in DOMAIN subscriptions :
                      /\ subscriptions[id].owner = res.owner
                      /\ RowsOf(cells_subscriptions, id) \cap res.cells # {}}

\* ----------------------------------------------------------------------- C23
\* C23: SearchSubscriptions with an empty cell set returns the bad-input
\* error (dsserr.BadRequest) and nothing else: no transaction is left, no
\* subscription is returned and no table changes.
EmptySearchIsBadRequest ==
    [][(res'.op = "SearchSubscriptions" /\ res'.cells = {}) =>
          /\ res'.err = "BadRequest"
          /\ res'.list = {}
          /\ ~res'.open
          /\ tables' = tables /\ clock' = clock]_vars

\* C23 witness: a search with no cells was refused while the owner had a
\* subscription stored
EmptySearchRefused ==
    /\ res.op = "SearchSubscriptions"
    /\ res.cells = {}
    /\ res.err = "BadRequest"
    /\ \E id \in DOMAIN subscriptions : subscriptions[id].owner = res.owner

\* ----------------------------------------------------------------------- C24
\* the time range searched lies entirely after the end of the ISA row
WindowAfterEnd(row, w) == w[1] # NULL /\ w[1] > row.ends_at

\* the time range searched lies entirely before the start of the ISA row
WindowBeforeStart(row, w) == w[2] # NULL /\ w[2] < row.starts_at

\* C24: SearchISAs(cells, earliest, latest) returns exactly the stored ISAs,
\* of any owner, that have a cell in cells and whose time range the window
\* does not miss: an ISA sharing a cell is returned with no bounds and with
\* bounds equal to or enclosing its range, and is not returned when the
\* window lies after its end or when no cell is shared.
SearchISAsByCellAndTime ==
    (res.op = "SearchISAs" /\ res.err = "") =>
       \A id \in DOMAIN isas :
          id \in res.list <=>
             /\ RowsOf(cells_isas, id) \cap res.cells # {}
             /\ ~WindowAfterEnd(isas[id], res.window)
             /\ ~WindowBeforeStart(isas[id], res.window)

\* C24 witness: a search with the exact time range of a stored ISA, in one
\* of its cells, returned it
ExactWindowFindsIsa ==
    /\ res.op = "SearchISAs"
    /\ res.err = ""
    /\ \E id \in res.list :
          /\ res.window = <<isas[id].starts_at, isas[id].ends_at>>
          /\ RowsOf(cells_isas, id) \cap res.cells # {}

\* ----------------------------------------------------------------------- C25
\* C25: deleting an ISA by its owner succeeds for every stored ISA, whatever
\* subscriptions are stored and whether or not any of them has a cell of the
\* ISA: a delete that failed was not the owner's delete of a stored ISA (a
\* failed delete changes no table, so the ISA it names is still there).
IsaDeleteByOwnerSucceeds ==
    (res.op = "DeleteIdentificationServiceArea" /\ res.err # "") =>
       ~(res.id \in DOMAIN isas /\ isas[res.id].owner = res.owner)

\* ----------------------------------------------------------------------- C26
\* C26: the version is a pure, injective function of updated_at at the
\* granularity of the nanosecond: versionStringToTimestamp of
\* timestampToVersionString(t) is t for every t, no other time has the
\* version string of t, and an entity without updated_at has the empty
\* version.
VersionRoundTrip ==
    /\ res.op = "subscriptionsRow.toProtobuf" =>
          \A u \in UnixNanos : timestampToVersionString(u) = res.version => u = clock
    /\ res.op = "versionStringToTimestamp" => (res.err = "" /\ res.time = clock)
    /\ res.op = "Version" => (res.version = <<>> <=> res.time = NULL)

\* C26 witness: a time before the epoch, whose count is converted to
\* unsigned and back, came back from its version string of several digits
RoundTripBeforeEpoch ==
    /\ res.op = "versionStringToTimestamp"
    /\ clock < 0
    /\ Len(res.version) > 1
    /\ res.time = clock

\* ----------------------------------------------------------------------- C27
\* C27: the version string on the wire is the base-32 text of the unsigned
\* nanosecond count for both kinds of entity: an ISA row and a subscription
\* row with the same updated_at carry the same string, and the string of an
\* ISA is parsed by versionStringToTimestamp to the updated_at of the ISA.
WireVersionsAgree ==
    /\ res.op = "identificationServiceAreaRow.toProtobuf" =>
          res.version = timestampToVersionString(clock)
    /\ res.op = "versionStringToTimestamp of ISA" =>
          (res.err = "" /\ res.time = clock)

\* ----------------------------------------------------------------------- C28
\* the field of the merged entity: the overlay's when it is set, the
\* receiver's otherwise
Overlaid(merged, over, kept, empty) == merged = IF over # empty THEN over ELSE kept

\* C28: the merge of an overlay into an entity gives a new entity that has
\* the overlay's field where it is set and the receiver's field where it is
\* not, always has the id and the owner of the receiver, and leaves the
\* receiver as it was.
ApplyMergesIntoCopy ==
    /\ res.op = "IdentificationServiceArea.Apply" =>
          LET s == res.arg[1]
              i2 == res.arg[2]
          IN /\ res.isa # <<>>
             /\ res.isa[1].ID = s.ID /\ res.isa[1].Owner = s.Owner
             /\ Overlaid(res.isa[1].Url, i2.Url, s.Url, "")
             /\ Overlaid(res.isa[1].Cells, i2.Cells, s.Cells, NilCells)
             /\ Overlaid(res.isa[1].StartTime, i2.StartTime, s.StartTime, NULL)
             /\ Overlaid(res.isa[1].EndTime, i2.EndTime, s.EndTime, NULL)
             /\ res.recv = <<s>>
    /\ res.op = "subscriptionsRow.applyProtobuf" =>
          LET sr == res.arg[1]
          IN /\ res.recv[1].id = sr.id /\ res.recv[1].row.owner = sr.row.owner
             /\ res.recv = <<sr>>

\* ----------------------------------------------------------------------- C29
\* C29: every stored subscription that has both a start and an end has its
\* start before its end, and every stored ISA has its start before its end;
\* an insert or update that the CHECK of the table refuses, because the
\* range it would store is inverted or empty, fails and changes no table.
RangesStayOrdered ==
    [][/\ \A id \in DOMAIN subscriptions' :
             \/ subscriptions'[id].starts_at = NULL
             \/ subscriptions'[id].ends_at = NULL
             \/ subscriptions'[id].starts_at < subscriptions'[id].ends_at
       /\ \A id \in DOMAIN isas' : isas'[id].starts_at < isas'[id].ends_at
       /\ (/\ res'.op \in {"InsertSubscription", "UpdateSubscription"}
           /\ res'.window # <<>>
           /\ ~ValidWindow(IF res'.id \in DOMAIN subscriptions
                           THEN MergedWindow(subscriptions[res'.id], res'.window)
                           ELSE res'.window)) =>
             (res'.err # "" /\ tables' = tables)
       /\ res'.err = "Constraint" => tables' = tables]_vars

\* C29 witness: with a subscription of ordered range stored, the insert of
\* an ISA of empty range was refused by the CHECK
EmptyRangeIsaRefused ==
    /\ res.op = "InsertISA"
    /\ res.err = "Constraint"
    /\ isas = EmptyTable
    /\ \E id \in DOMAIN subscriptions :
          /\ subscriptions[id].starts_at # NULL
          /\ subscriptions[id].ends_at # NULL

\* ----------------------------------------------------------------------- C30
\* C30: Covering accepts a loop exactly when its area is positive and at
\* most the area 1000 square miles have on the unit sphere,
\* maxAllowedSqMi / (sqMiEarth / (4 * pi)): a loop of 500 square miles is
\* covered, a loop of more than 1000 square miles is refused.
CoveringAcceptsUpToLimit ==
    res.op = "Covering" =>
       (res.err = "" <=>
           /\ RatGT(LoopArea(res.arg[1]), <<0, 1>>)
           /\ ~RatGT(LoopArea(res.arg[1]),
                     RatDiv(<<maxAllowedSqMi, 1>>,
                            RatDiv(<<sqMiEarth, 1>>, RatMul(<<4, 1>>, Pi)))))

\* ----------------------------------------------------------------------- C31
\* C31: AreaToCellIDs fails with a bad-input error (dsserr.BadRequest) and
\* returns no cell union for every area string that has an odd number of
\* coordinates, or fewer than three pairs of them, or a field that is not a
\* finite number (empty, no number, NaN, infinite).
MalformedAreaIsBadRequest ==
    (/\ res.op = "AreaToCellIDs"
     /\ \/ Len(res.arg[1]) % 2 = 1
        \/ Len(res.arg[1]) \div 2 < 3
        \/ \E i \in 1..Len(res.arg[1]) : res.arg[1][i] # "1") =>
       (res.err \in geoBadRequests /\ res.cells = {})

\* ----------------------------------------------------------------------- C32
\* the handler caller "t1" ran last and the request it was given
LastRpc == tx["t1"].op
LastReq == tx["t1"].s[1]

\* C32: a search request whose area string is malformed or oversized is
\* answered with a bad-input error (dsserr.BadRequest), by
\* SearchIdentificationServiceAreas as by SearchSubscriptions, and the
\* handler has returned without a call of the Store.
BadAreaIsBadRequest ==
    (/\ LastRpc \in {"Server.SearchIdentificationServiceAreas", "Server.SearchSubscriptions"}
     /\ LastReq.owner # NoOwner \/ LastRpc = "Server.SearchIdentificationServiceAreas"
     /\ AreaToCellIDsErr(LastReq.area, LastReq.sqMi) # "") =>
       /\ res.op = LastRpc
       /\ res.err \in geoBadRequests \cup {"BadRequest"}

\* ----------------------------------------------------------------------- C35
\* C35: the mutating handlers are translations onto the Store: when
\* PutSubscription has returned success for an id, the GetSubscription that
\* follows for that id returns the subscription, and when PatchSubscription
\* has returned success the stored subscription has the url of the patch.
PutThenGetReturnsSubscription ==
    [][/\ (/\ LastRpc = "Server.PutSubscription"
           /\ res.err = ""
           /\ tx'["t1"].op = "Server.GetSubscription"
           /\ res'.id = res.id) =>
             (res'.err = "" /\ res'.sub # <<>>)
       /\ (/\ tx'["t1"].op = "Server.PatchSubscription"
           /\ res'.err = "") =>
             /\ res'.id \in DOMAIN subscriptions'
             /\ subscriptions'[res'.id].url = tx'["t1"].s[1].url]_vars

\* ----------------------------------------------------------------------- C36
\* the handlers that ask the context for an owner
OwnerScopedRpcs ==
    {"Server.PutIdentificationServiceArea", "Server.PatchIdentificationServiceArea",
     "Server.DeleteIdentificationServiceArea", "Server.PutSubscription",
     "Server.PatchSubscription", "Server.DeleteSubscription",
     "Server.SearchSubscriptions"}

\* C36: every handler that is scoped to an owner answers a request whose
\* context has no owner with PermissionDenied, without a call of the Store:
\* no table changes and no time is taken.
NoOwnerIsPermissionDenied ==
    [][(/\ tx'["t1"].op \in OwnerScopedRpcs
        /\ tx'["t1"].s[1].owner = NoOwner) =>
          /\ res'.op = tx'["t1"].op
          /\ res'.err = "PermissionDenied"
          /\ tables' = tables
          /\ clock' = clock]_vars

\* C36 witness: with an ISA and a subscription stored, a delete of the ISA
\* that had everything but the owner was answered with PermissionDenied
OwnerlessDeleteRefused ==
    /\ LastRpc = "Server.DeleteIdentificationServiceArea"
    /\ LastReq.owner = NoOwner
    /\ LastReq.id \in DOMAIN isas
    /\ LastReq.version = StoredIsaVersion(isas, LastReq.id)
    /\ subscriptions # EmptyTable
    /\ res.err = "PermissionDenied"

\* C33: the stored notification_index of a subscription never decreases, in
\* any interleaving of UpdateSubscription with the ISA mutations that affect
\* the subscription.
NotificationIndexNeverDecreases ==
    [][\A id \in DOMAIN subscriptions \cap DOMAIN subscriptions' :
          subscriptions'[id].notification_index >= subscriptions[id].notification_index]_vars

\* ----------------------------------------------------------------------- C34
\* the row of subscription id was last written by an ISA mutation: the commit
\* that wrote an ISA row refreshed it, so both carry its timestamp
RefreshedByIsaMutation(id) ==
    \E i \in DOMAIN isas : isas[i].updated_at = subscriptions[id].updated_at

\* the step is an UpdateSubscription or a DeleteSubscription of the stored
\* subscription id, called by its owner
WriteByOwnerStep(id) ==
    /\ res'.op \in {"UpdateSubscription", "DeleteSubscription"}
    /\ res'.id = id
    /\ res'.owner = subscriptions[id].owner

\* version is one of a timestamp the row had before its last write
HeldBefore(version, id) ==
    \E u \in Times : u < subscriptions[id].updated_at /\ version = VersionFromTimestamp(u)

\* C34: an ISA mutation that affects a subscription refreshes its updated_at
\* and so changes its version: an UpdateSubscription or a versioned
\* DeleteSubscription by the owner with a version obtained before the ISA
\* mutation returns VersionMismatch and writes nothing, and with the version
\* read afterwards it is not refused for its version.
IsaMutationInvalidatesVersion ==
    [][\A id \in DOMAIN subscriptions :
          (RefreshedByIsaMutation(id) /\ WriteByOwnerStep(id)) =>
              /\ HeldBefore(res'.version, id) =>
                    (res'.err = "VersionMismatch" /\ tables' = tables)
              /\ res'.version = VersionFromTimestamp(subscriptions[id].updated_at) =>
                    res'.err \in {"", "Constraint"}]_vars

\* ----------------------------------------------------------------------- C37
\* the stored entities a search in cells matches
MatchingSubscriptions(cells, owner) ==
    {id \in DOMAIN subscriptions :
        subscriptions[id].owner = owner /\ RowsOf(cells_subscriptions, id) \cap cells # {}}

MatchingIsas(cells, earliest, latest) ==
    {id \in DOMAIN isas :
        RowsOf(cells_isas, id) \cap cells # {} /\ IsaInWindow(isas[id], earliest, latest)}

\* C37: a search returns each entity it matches exactly once, also when
\* several of the entity's cells are among the cells searched.
SearchReturnsEachOnce ==
    /\ (res.op = "SearchSubscriptions" /\ res.err = "") =>
          \A id \in MatchingSubscriptions(res.cells, res.owner) :
              id \in DOMAIN res.rows /\ res.rows[id] = 1
    /\ (res.op = "SearchISAs" /\ res.err = "") =>
          \A id \in MatchingIsas(res.cells, res.window[1], res.window[2]) :
              id \in DOMAIN res.rows /\ res.rows[id] = 1

\* a subscription with two cells among those searched has come back from a
\* search
FoundOverTwoCells ==
    /\ res.op = "SearchSubscriptions" /\ res.err = ""
    /\ \E id \in DOMAIN res.rows :
          Cardinality(RowsOf(cells_subscriptions, id) \cap res.cells) >= 2

\* ----------------------------------------------------------------------- C38
\* C38: deletion is idempotent in effect.  A DeleteSubscription that succeeds
\* returns the entity as it was stored and leaves neither the row nor a cell
\* row of it; after it GetSubscription of the id finds nothing, the same
\* DeleteSubscription again returns the error of a row not found and changes
\* no state, and the id can be inserted again.
DeletionIdempotent ==
    [][/\ (tx[DeleteCaller].pc \in BeforeDelete /\ tx'[DeleteCaller].pc = "deleted") =>
             /\ res'.sub = <<SubFromRow(res'.id, subscriptions[res'.id])>>
             /\ res'.id \notin DOMAIN subscriptions'
             /\ RowsOf(cells_subscriptions', res'.id) = {}
       /\ (tx[DeleteCaller].pc \in AfterDelete /\ tx'[DeleteCaller].pc = "got") =>
             /\ res'.sub = <<>>
             /\ res'.err = "ErrNoRows"
       /\ (tx[DeleteCaller].pc \in AfterDelete /\ tx'[DeleteCaller].pc = "again") =>
             /\ res'.err = "ErrNoRows"
             /\ tables' = tables
             /\ clock' = clock
       /\ (tx[DeleteCaller].pc \in AfterDelete /\ tx'[DeleteCaller].pc = "reinserted") =>
             /\ res'.err # "AlreadyExists"
             /\ res'.err = "" => res'.id \in DOMAIN subscriptions']_vars

\* the delete with a version was repeated after it had succeeded, and found
\* no row
RepeatedDeleteFoundNothing ==
    /\ tx[DeleteCaller].pc = "again"
    /\ res.op = "DeleteSubscription"
    /\ res.err = "ErrNoRows"
    /\ res.version # <<>>
    /\ res.id = tx[DeleteCaller].s[1].ID

====
